---- MODULE Spec2Model ----
(***************************************************************************)
(* DiOSGen (diosgen.py): the description parser, the code generator for    *)
(* event queues, phases, the sleep gate and the interrupt service routine, *)
(* and the execution of the generated PIC14 program, one instruction per   *)
(* step, with interrupts arriving between any two instructions.            *)
(***************************************************************************)
EXTENDS Integers, Sequences, FiniteSets, TLC

VARIABLES
    build,      \* the description being generated and run, with its module sources
    gen,        \* "todo" | "ok" | "fail": outcome of generate_main
    code,       \* the generated program: the instructions of the code region
    map,        \* the listing of the generated program: where its parts are
    pc,         \* program counter: index into the generated code
    stack,      \* hardware return stack (call, interrupt)
    pend,       \* macro instructions a module fragment still has to run, per context
    inIsr,      \* TRUE between the interrupt vector and retfie
    W,          \* the W register
    mem,        \* the register file, STATUS, PCLATH and INTCON included
    asleep,     \* TRUE after a sleep instruction until a wake-up
    obs,        \* history of the run, for the properties (see ObsInit)
    lines,      \* parser: the input lines consumed so far
    progdef,    \* parser: the ProgramDef under construction
    pflags,     \* parser: locals dios, wakealways and lno
    presult     \* parser: what parse_lines returned or raised, once it has

execvars == <<build, gen, code, map, pc, stack, pend, inIsr, W, mem, asleep, obs>>
parsevars == <<lines, progdef, pflags, presult>>
vars == <<build, gen, code, map, pc, stack, pend, inIsr, W, mem, asleep, obs,
          lines, progdef, pflags, presult>>

(***************************************************************************)
(* Bytes and bits.                                                         *)
(***************************************************************************)
RECURSIVE Pow2(_)
Pow2(n) == IF n = 0 THEN 1 ELSE 2 * Pow2(n - 1)

Bit(v, b) == (v \div Pow2(b)) % 2
BitSet(v, b) == IF Bit(v, b) = 1 THEN v ELSE v + Pow2(b)
BitClr(v, b) == IF Bit(v, b) = 1 THEN v - Pow2(b) ELSE v
Swap(v) == (v % 16) * 16 + (v \div 16)

RECURSIVE BitOr(_, _)
BitOr(a, b) ==
    IF a = 0 THEN b
    ELSE IF b = 0 THEN a
    ELSE (IF a % 2 = 1 \/ b % 2 = 1 THEN 1 ELSE 0) + 2 * BitOr(a \div 2, b \div 2)

\* The concatenation of a sequence of sequences (the emitters' print calls in
\* order).  ss is bound once, as a value, before it is folded.
RECURSIVE ConcatFrom(_, _)
ConcatFrom(v, k) == IF k > Len(v) THEN <<>> ELSE v[k] \o ConcatFrom(v, k + 1)

Concat(ss) == CHOOSE r \in { ConcatFrom(v, 1) : v \in {ss} } : TRUE

Reverse(s) == [k \in 1..Len(s) |-> s[Len(s) + 1 - k]]

Min(a, b) == IF a < b THEN a ELSE b

(***************************************************************************)
(* The description model (diosgen.py, the dataclasses).                    *)
(***************************************************************************)
None == "None"

QueueDef(name, events, phase) == [name |-> name, events |-> events, phase |-> phase]
IRQDef(phase, flagfile, flagbit) == [phase |-> phase, flagfile |-> flagfile, flagbit |-> flagbit]
WakeSourceDef(enfile, enbit) == [enfile |-> enfile, enbit |-> enbit]

LargeLimit == 16
TinyLimit == 4

is_large(queuedef) == Len(queuedef.events) > LargeLimit
is_tiny(queuedef) == Len(queuedef.events) < TinyLimit

phase_has_priorities(pd, phase) ==
    Cardinality({k \in DOMAIN pd.queues : pd.queues[k].phase = phase}) > 1

ConstDef(name, op, init) == [name |-> name, op |-> op, init |-> init]

\* ProgramDef(path): modules holds the module names, phases the phase names,
\* events the keys of the events dict in insertion order.
EmptyProgram ==
    [includes |-> <<>>, modules |-> <<>>, consts |-> <<>>, phases |-> <<>>,
     irqs |-> <<>>, events |-> <<>>, queues |-> <<>>, wakesrcs |-> <<>>,
     sleepable |-> FALSE]

(***************************************************************************)
(* The register file as the linker lays it out.  The special function      *)
(* registers are those of p16f887.inc; the udata section holds, per queue   *)
(* and in queue order, the state byte and then the bitmap bytes.            *)
(***************************************************************************)
STATUS == 3
PCLATH == 10
INTCON == 11
C == 0
Z == 2
RP0 == 5
RP1 == 6
GIE == 7
T0IF == 2
INTF == 1
INTE == 4
T0IE == 5
UdataBase == 32
dios_irqsave_w == 112
dios_irqsave_status == 113
dios_irqsave_pclath == 114
MemTop == 255
BankSize == 128
SharedBase == 112
OPTION_REG == 129
T0CS == 5

QBytes(queuedef) == (Len(queuedef.events) + 7) \div 8

RECURSIVE dios_qstate(_, _)
dios_qstate(pd, q) ==
    IF q = 1 THEN UdataBase
    ELSE dios_qstate(pd, q - 1) + 1 + QBytes(pd.queues[q - 1])

dios_q(pd, q) == dios_qstate(pd, q) + 1

\* The bit-index constant <Queue>_<Event>: cblock (qid << 8), qid counted from 0.
QueueEventConst(q, j) == (q - 1) * 256 + j

(***************************************************************************)
(* Instructions of the generated program.                                  *)
(***************************************************************************)
Ins(op, f, b, d, l) == [op |-> op, f |-> f, b |-> b, d |-> d, l |-> l]
Label(l) == Ins("label", 0, 0, "", l)
Goto(l) == Ins("goto", 0, 0, "", l)
Pagesel(l) == Ins("pagesel", 0, 0, "", l)
Banksel(f) == Ins("banksel", f, 0, "", "")
Bcf(f, b) == Ins("bcf", f, b, "", "")
Bsf(f, b) == Ins("bsf", f, b, "", "")
Btfsc(f, b) == Ins("btfsc", f, b, "", "")
Btfss(f, b) == Ins("btfss", f, b, "", "")
Movf(f, d) == Ins("movf", f, 0, d, "")
Movwf(f) == Ins("movwf", f, 0, "", "")
Swapf(f, d) == Ins("swapf", f, 0, d, "")
Iorwf(f, d) == Ins("iorwf", f, 0, d, "")
Clrf(f) == Ins("clrf", f, 0, "", "")
Clrw == Ins("clrw", 0, 0, "", "")
Movlw(k) == Ins("movlw", k, 0, "", "")
Return == Ins("return", 0, 0, "", "")
Retfie == Ins("retfie", 0, 0, "", "")
Sleep == Ins("sleep", 0, 0, "", "")
Call(l) == Ins("call", 0, 0, "", l)
\* The code one module contributes under one aspect gate: d is the gate
\* ("diosh" or "diosph"), l the aspect, f the module's position.
Include(gate, aspect, m) == Ins("include", m, 0, gate, aspect)

(***************************************************************************)
(* generate_modules: the include block of one aspect, main pass in module  *)
(* order and post pass in reverse module order.                            *)
(***************************************************************************)
\* (variant: the post pass runs the modules in declaration order)
PostPassForward(aspect, pd) ==
    [m \in 1..Len(pd.modules) |-> Include("diosph", aspect, m)]

MainPass(aspect, pd) ==
    [m \in 1..Len(pd.modules) |-> Include("diosh", aspect, m)]

PostPass(aspect, pd) ==
    Reverse([m \in 1..Len(pd.modules) |-> Include("diosph", aspect, m)])

generate_modules(aspect, pd, main, post) ==
    IF pd.modules = <<>> THEN <<>>
    ELSE (IF main THEN MainPass(aspect, pd) ELSE <<>>)
         \o (IF post THEN PostPass(aspect, pd) ELSE <<>>)

(***************************************************************************)
(* generate_queue_macros: the post macro and the queue-has-work predicate, *)
(* as the assembler expands them.                                          *)
(***************************************************************************)
PostByte(bit) == (bit + 7) \div 8

\* (variant: the macro sets the bitmap bit only)
PostBitmapOnly(pd, q, bit) ==
    << Banksel(dios_q(pd, q) + PostByte(bit)),
       Bsf(dios_q(pd, q) + PostByte(bit), bit % 8) >>

diospost_queue(pd, q, bit) ==
    << Banksel(dios_q(pd, q) + PostByte(bit)),
       Bsf(dios_q(pd, q) + PostByte(bit), bit % 8) >>
    \o (IF is_large(pd.queues[q])
        THEN << Banksel(dios_qstate(pd, q)), Bsf(dios_qstate(pd, q), 0) >>
        ELSE <<>>)

diosqsc_queue(pd, q) ==
    IF is_large(pd.queues[q])
    THEN << Banksel(dios_qstate(pd, q)), Btfsc(dios_qstate(pd, q), 0) >>
    ELSE (IF Len(pd.queues[q].events) <= 8
          THEN << Banksel(dios_q(pd, q)), Movf(dios_q(pd, q), "F") >>
          ELSE <<Clrw>> \o Concat([i \in 1..QBytes(pd.queues[q]) |->
                   << Banksel(dios_q(pd, q) + (i - 1)),
                      Iorwf(dios_q(pd, q) + (i - 1), "W") >>]))
         \o << Btfsc(STATUS, Z) >>

\* str.lower on the queue names the descriptions below use.
Lower(name) ==
    CASE name = "QUEUE" -> "queue"
      [] name = "HI" -> "hi"
      [] name = "LO" -> "lo"
      [] name = "U" -> "u"
      [] name = "V" -> "v"
      [] OTHER -> name

process_queue(pd, q) ==
    << Pagesel("handle_" \o Lower(pd.queues[q].name)), Call("handle_" \o Lower(pd.queues[q].name)) >>

(***************************************************************************)
(* The dispatcher macro diospost of generate_main, as the assembler expands *)
(* it for an argument of value event: per entry of the event map one `if    *)
(* event == <name>` block (the names are numbered from 0 by the Events      *)
(* cblock) that invokes the post macro of every queue holding the event,    *)
(* in queue order, with the constant <Queue>_<Event>.                       *)
(***************************************************************************)
EventIndex(queuedef, name) ==
    CHOOSE j \in 0..(Len(queuedef.events) - 1) : queuedef.events[j + 1] = name

DispatchCalls(pd, event) ==
    Concat([k \in 1..Len(pd.events) |->
        IF event = k - 1
        THEN LET holders == SelectSeq([q \in 1..Len(pd.queues) |-> q],
                                LAMBDA q : \E j \in 1..Len(pd.queues[q].events) :
                                               pd.queues[q].events[j] = pd.events[k])
             IN  [i \in 1..Len(holders) |->
                    << holders[i],
                       QueueEventConst(holders[i],
                                       EventIndex(pd.queues[holders[i]], pd.events[k])) >>]
        ELSE <<>>])

diospost(pd, event) ==
    Concat([i \in 1..Len(DispatchCalls(pd, event)) |->
              diospost_queue(pd, DispatchCalls(pd, event)[i][1],
                             DispatchCalls(pd, event)[i][2])])

(***************************************************************************)
(* generate_queue_init.                                                    *)
(***************************************************************************)
\* (variant: the initializer clears the bitmap bytes only)
QueueInitBitmapOnly(pd, q) ==
    Concat([i \in 1..QBytes(pd.queues[q]) |->
         << Banksel(dios_q(pd, q) + (i - 1)), Clrf(dios_q(pd, q) + (i - 1)) >>])

generate_queue_init(pd, q) ==
    << Banksel(dios_qstate(pd, q)), Clrf(dios_qstate(pd, q)) >>
    \o Concat([i \in 1..QBytes(pd.queues[q]) |->
         << Banksel(dios_q(pd, q) + (i - 1)), Clrf(dios_q(pd, q) + (i - 1)) >>])

(***************************************************************************)
(* generate_queue_handler.  Byte index i and bit index j count from 0 as   *)
(* in the source.                                                          *)
(***************************************************************************)
qendlabel(queuedef) == "dios_qend_" \o queuedef.name
wendlabel(queuedef, i) == "dios_w" \o ToString(i) \o "end_" \o queuedef.name
bimpllabel(queuedef, j) == "dios_b" \o ToString(j) \o "impl_" \o queuedef.name
bendlabel(queuedef, j) == "dios_b" \o ToString(j) \o "end_" \o queuedef.name
EventAspect(queuedef, j) == "event_" \o queuedef.name \o "_" \o queuedef.events[j + 1]

endbit(queuedef, i) == Min(Len(queuedef.events), i * 8 + 8)

\* Line 319 reads the loop variable i before the loop at line 324 has bound
\* it: Python raises UnboundLocalError there.
HandlerRaises(queuedef, has_prios) == is_large(queuedef) /\ has_prios

HandlerHead(pd, q, has_prios) ==
    LET queuedef == pd.queues[q]
        state == dios_qstate(pd, q)
    IN  IF is_large(queuedef)
        THEN << Bcf(state, 1), Pagesel(qendlabel(queuedef)), Banksel(state),
                Btfss(state, 0), Goto(qendlabel(queuedef)), Bcf(state, 0) >>
        ELSE IF has_prios THEN << Bcf(state, 1) >> ELSE <<>>

BitTest(pd, q, i, j) ==
    LET queuedef == pd.queues[q]
    IN  << Pagesel(bimpllabel(queuedef, j)),
           Btfsc(dios_q(pd, q) + i, j - i * 8),
           Goto(bimpllabel(queuedef, j)),
           Label(bendlabel(queuedef, j)) >>

BitImpl(pd, q, i, j, has_prios) ==
    LET queuedef == pd.queues[q]
        state == dios_qstate(pd, q)
    IN  << Label(bimpllabel(queuedef, j)), Bcf(dios_q(pd, q) + i, j - i * 8) >>
        \o generate_modules(EventAspect(queuedef, j), pd, TRUE, TRUE)
        \o (IF is_tiny(queuedef) /\ has_prios
            THEN << Banksel(state + i), Bsf(state, 1) >> ELSE <<>>)
        \o (IF j # endbit(queuedef, i) - 1
            THEN << Banksel(dios_q(pd, q) + i) >> ELSE <<>>)
        \o << Pagesel(bendlabel(queuedef, j)), Goto(bendlabel(queuedef, j)) >>

WordScan(pd, q, i, has_prios) ==
    LET queuedef == pd.queues[q]
        state == dios_qstate(pd, q)
        bits == [k \in 1..(endbit(queuedef, i) - i * 8) |-> i * 8 + k - 1]
    IN  (IF ~is_tiny(queuedef)
         THEN << Pagesel(wendlabel(queuedef, i)), Banksel(dios_q(pd, q) + i),
                 Movf(dios_q(pd, q) + i, "F"), Btfsc(STATUS, Z),
                 Goto(wendlabel(queuedef, i)) >>
              \o (IF has_prios THEN << Banksel(state + i), Bsf(state, 1) >> ELSE <<>>)
         ELSE <<>>)
        \o Concat([k \in 1..Len(bits) |-> BitTest(pd, q, i, bits[k])])
        \o (IF ~is_tiny(queuedef)
            THEN (IF ~is_large(queuedef) /\ has_prios THEN << Bsf(state, 1) >> ELSE <<>>)
                 \o << Label(wendlabel(queuedef, i)) >>
            ELSE <<>>)

WordImpl(pd, q, i, has_prios) ==
    LET queuedef == pd.queues[q]
    IN  Concat([k \in 1..(endbit(queuedef, i) - i * 8) |->
                   BitImpl(pd, q, i, i * 8 + k - 1, has_prios)])

HandlerTail(pd, q, startlabel, has_prios) ==
    LET queuedef == pd.queues[q]
        state == dios_qstate(pd, q)
    IN  (IF has_prios
         THEN IF ~is_large(queuedef)
              THEN << Pagesel(startlabel), Banksel(state), Btfsc(state, 1),
                      Goto(startlabel) >>
              ELSE << Pagesel(startlabel), Goto(startlabel) >>
         ELSE <<>>)
        \o (IF is_large(queuedef) THEN << Label(qendlabel(queuedef)) >> ELSE <<>>)

\* The inline stream (file) and the implementation stream (implfile) the
\* handler writes, and whether it raises.
generate_queue_handler(pd, q, startlabel) ==
    HandlerHead(pd, q, phase_has_priorities(pd, pd.queues[q].phase))
    \o Concat([w \in 1..QBytes(pd.queues[q]) |->
                 WordScan(pd, q, w - 1, phase_has_priorities(pd, pd.queues[q].phase))])
    \o HandlerTail(pd, q, startlabel, phase_has_priorities(pd, pd.queues[q].phase))

generate_queue_handler_impl(pd, q) ==
    Concat([w \in 1..QBytes(pd.queues[q]) |->
              WordImpl(pd, q, w - 1, phase_has_priorities(pd, pd.queues[q].phase))])

generate_queue_handler_raises(pd, q) ==
    HandlerRaises(pd.queues[q], phase_has_priorities(pd, pd.queues[q].phase))

(***************************************************************************)
(* phase_code, generate_phase: label, main-pass modules, the body, the     *)
(* drain handlers of the queues the phase owns, post-pass modules.  The    *)
(* handlers' implementation streams go to himplfile.                       *)
(***************************************************************************)
PhaseQueues(pd, phase) ==
    SelectSeq([k \in 1..Len(pd.queues) |-> k], LAMBDA k : pd.queues[k].phase = phase)

phase_code(phase, pd, body) ==
    << Label("phase_" \o phase) >>
    \o generate_modules(phase, pd, TRUE, FALSE)
    \o body
    \o Concat([k \in 1..Len(PhaseQueues(pd, phase)) |->
                 generate_queue_handler(pd, PhaseQueues(pd, phase)[k], "phase_" \o phase)])
    \o generate_modules(phase, pd, FALSE, TRUE)

phase_code_himpl(phase, pd) ==
    Concat([k \in 1..Len(PhaseQueues(pd, phase)) |->
              generate_queue_handler_impl(pd, PhaseQueues(pd, phase)[k])])

phase_code_raises(phase, pd) ==
    \E k \in 1..Len(pd.queues) :
        pd.queues[k].phase = phase /\ generate_queue_handler_raises(pd, k)

generate_phase(phase, pd) == phase_code(phase, pd, <<>>)

(***************************************************************************)
(* generate_sleep: the gate in front of the sleep phase.                   *)
(***************************************************************************)
\* A wake source names its enable register and bit; the assembler resolves
\* the names with the device's include file.
Symbol(name) ==
    CASE name = "INTCON" -> INTCON
      [] name = "INTE" -> INTE
      [] name = "T0IE" -> T0IE

\* (variant: the gate starts from "a wake source is enabled" in every case)
SleepGateAssumesWake(pd) ==
    << Bsf(STATUS, C) >>
    \o Concat([k \in 1..Len(pd.wakesrcs) |->
         << Banksel(Symbol(pd.wakesrcs[k].enfile)),
            Btfsc(Symbol(pd.wakesrcs[k].enfile), Symbol(pd.wakesrcs[k].enbit)),
            Bsf(STATUS, C) >>])
    \o << Banksel(INTCON), Btfss(INTCON, GIE), Bcf(STATUS, C) >>
    \o Concat([k \in 1..Len(PhaseQueues(pd, "idle")) |->
         diosqsc_queue(pd, PhaseQueues(pd, "idle")[k]) \o << Bcf(STATUS, C) >>])
    \o << Pagesel("phase_sleep_done"), Btfss(STATUS, C), Goto("phase_sleep_done") >>

SleepGate(pd) ==
    (IF pd.wakesrcs # <<>> THEN << Bcf(STATUS, C) >> ELSE << Bsf(STATUS, C) >>)
    \o Concat([k \in 1..Len(pd.wakesrcs) |->
         << Banksel(Symbol(pd.wakesrcs[k].enfile)),
            Btfsc(Symbol(pd.wakesrcs[k].enfile), Symbol(pd.wakesrcs[k].enbit)),
            Bsf(STATUS, C) >>])
    \o << Banksel(INTCON), Btfss(INTCON, GIE), Bcf(STATUS, C) >>
    \o Concat([k \in 1..Len(PhaseQueues(pd, "idle")) |->
         diosqsc_queue(pd, PhaseQueues(pd, "idle")[k]) \o << Bcf(STATUS, C) >>])
    \o << Pagesel("phase_sleep_done"), Btfss(STATUS, C), Goto("phase_sleep_done") >>

generate_sleep(pd) ==
    SleepGate(pd) \o phase_code("sleep", pd, << Sleep >>) \o << Label("phase_sleep_done") >>

(***************************************************************************)
(* generate_main: the code region, from the reset vector to the handlers   *)
(* of the unassigned queues.                                               *)
(***************************************************************************)
IrqPrologue ==
    << Label("_irq"),
       Movwf(dios_irqsave_w),
       Swapf(STATUS, "W"),
       Movwf(dios_irqsave_status),
       Movf(PCLATH, "W"),
       Movwf(dios_irqsave_pclath) >>

\* (variant: STATUS reloaded without the nibble swap)
IrqEpilogueUnswapped ==
    << Movf(dios_irqsave_pclath, "W"),
       Movwf(PCLATH),
       Movf(dios_irqsave_status, "W"),
       Movwf(STATUS),
       Swapf(dios_irqsave_w, "F"),
       Swapf(dios_irqsave_w, "W"),
       Retfie >>

IrqEpilogue ==
    << Movf(dios_irqsave_pclath, "W"),
       Movwf(PCLATH),
       Swapf(dios_irqsave_status, "W"),
       Movwf(STATUS),
       Swapf(dios_irqsave_w, "F"),
       Swapf(dios_irqsave_w, "W"),
       Retfie >>

IrqTest(irqdef) ==
    << Pagesel("dios_irqimpl_" \o irqdef.phase),
       Banksel(irqdef.flagfile),
       Btfsc(irqdef.flagfile, irqdef.flagbit),
       Goto("dios_irqimpl_" \o irqdef.phase),
       Label("dios_irqend_" \o irqdef.phase) >>

\* What one binding writes to irqhimplfile: the implementation label, the
\* flag clear, the bound phase, and then irqqueuehimplfile, which holds the
\* event implementations of the phase followed by the branch to the end label.
IrqImpl(irqdef, pd) ==
    << Label("dios_irqimpl_" \o irqdef.phase),
       Bcf(irqdef.flagfile, irqdef.flagbit) >>
    \o generate_phase(irqdef.phase, pd)
    \o phase_code_himpl(irqdef.phase, pd)
    \o << Pagesel("dios_irqend_" \o irqdef.phase),
          Goto("dios_irqend_" \o irqdef.phase) >>

\* The interrupt service routine, and irqhimplfile written after it.
IrqPhase(pd) ==
    IrqPrologue
    \o phase_code("irq", pd, Concat([k \in 1..Len(pd.irqs) |-> IrqTest(pd.irqs[k])]))
    \o IrqEpilogue
    \o Concat([k \in 1..Len(pd.irqs) |-> IrqImpl(pd.irqs[k], pd)])
    \o phase_code_himpl("irq", pd)

\* _start: the queue initializers, phase init, the main loop, mainhimplfile.
MainLoop(pd) ==
    << Label("_start") >>
    \o Concat([q \in 1..Len(pd.queues) |-> generate_queue_init(pd, q)])
    \o generate_phase("init", pd)
    \o generate_phase("idle", pd)
    \o (IF pd.sleepable THEN generate_sleep(pd) ELSE <<>>)
    \o << Pagesel("phase_idle"), Goto("phase_idle") >>
    \o phase_code_himpl("init", pd)
    \o phase_code_himpl("idle", pd)
    \o (IF pd.sleepable THEN phase_code_himpl("sleep", pd) ELSE <<>>)

CustomPhase(phase, pd) ==
    generate_phase(phase, pd) \o << Return >> \o phase_code_himpl(phase, pd)

UnassignedQueue(pd, q) ==
    << Label("handle_" \o Lower(pd.queues[q].name)) >>
    \o generate_queue_handler(pd, q, "handle_" \o Lower(pd.queues[q].name))
    \o << Return >>
    \o generate_queue_handler_impl(pd, q)

generate_main(pd) ==
    << Pagesel("_start"), Goto("_start") >>
    \o IrqPhase(pd)
    \o MainLoop(pd)
    \o generate_modules("code", pd, TRUE, FALSE)
    \o Concat([k \in 1..Len(pd.phases) |-> CustomPhase(pd.phases[k], pd)])
    \o Concat([k \in 1..Len(PhaseQueues(pd, None)) |->
                 UnassignedQueue(pd, PhaseQueues(pd, None)[k])])

\* The phases whose queue handlers generate_main emits.
EmittedPhases(pd) ==
    { "irq", "init", "idle", None }
    \cup (IF pd.sleepable THEN { "sleep" } ELSE {})
    \cup { pd.irqs[k].phase : k \in 1..Len(pd.irqs) }
    \cup { pd.phases[k] : k \in 1..Len(pd.phases) }

\* generate_main raises when a handler it emits raises.
generate_main_raises(pd) ==
    \E phase \in EmittedPhases(pd) : phase_code_raises(phase, pd)

(***************************************************************************)
(* The data definitions of generate_main that hold constants: per queue    *)
(* the block of event-bit constants, per declared constant the reduction   *)
(* block.  They are assembler directives, evaluated when the file is       *)
(* assembled.                                                              *)
(***************************************************************************)
Cblock(base, shift, names) == [op |-> "cblock", base |-> base, shift |-> shift, names |-> names]
SetTo(name, value) == [op |-> "set", name |-> name, value |-> value]
IfdefSet(symbol, name, cop) == [op |-> "ifdef", symbol |-> symbol, name |-> name, cop |-> cop]

EventBitName(queuedef, j) == queuedef.name \o "_" \o queuedef.events[j + 1]

\* (variant: the block starts at qid << 7)
QueueConstsShift7(queuedef, qid) ==
    << Cblock(qid, 7, [k \in 1..Len(queuedef.events) |-> EventBitName(queuedef, k - 1)]) >>

\* cblock qid << 8, then the names <Queue>_<Event> in event order.
generate_queue_consts(queuedef, qid) ==
    << Cblock(qid, 8, [k \in 1..Len(queuedef.events) |-> EventBitName(queuedef, k - 1)]) >>

generate_constdef(constdef, pd) ==
    << SetTo(constdef.name, constdef.init) >>
    \o [m \in 1..Len(pd.modules) |->
          IfdefSet(pd.modules[m] \o "_" \o constdef.name, constdef.name, constdef.op)]

\* enumerate(progdef.queues) counts the queues from 0.
DataDefinitions(pd) ==
    Concat([q \in 1..Len(pd.queues) |-> generate_queue_consts(pd.queues[q], q - 1)])
    \o Concat([k \in 1..Len(pd.consts) |-> generate_constdef(pd.consts[k], pd)])

(***************************************************************************)
(* parse_lines.  A line is given as LINE_RE and splitargs deliver it: the  *)
(* op and the list of arguments; a register or bit name stands for its     *)
(* number.  A line with no op (blank, label or comment only) has op "".    *)
(***************************************************************************)
Line(op, args) == [op |-> op, args |-> args]

NoMatch == Line("<no match>", <<>>)

\* What the parser has come to: still reading, returned, raised ValueError
\* (located: the message starts with path:lno), or raised something else.
Result(st, msg, located) == [st |-> st, msg |-> msg, located |-> located]
Parsing == Result("parsing", "", FALSE)
Error(msg) == Result("error", msg, TRUE)
ErrorNoLine(msg) == Result("error", msg, FALSE)
Crash(exc) == Result("crash", exc, FALSE)

ParseStart ==
    [progdef |-> EmptyProgram, dios |-> FALSE, wakealways |-> FALSE, lno |-> 0,
     result |-> Parsing]

\* opargs[0][1:-1] and ModuleDef.name for the paths used here.
Unquote(arg) ==
    CASE arg = "\"a.inc\"" -> "a.inc"
      [] arg = "\"b.inc\"" -> "b.inc"
      [] OTHER -> arg

ModuleName(path) ==
    CASE path = "a.inc" -> "a"
      [] path = "b.inc" -> "b"
      [] OTHER -> path

StartsWithIrq(name) == name \in { "irq_t", "irq_u" }

ConstOps == { "and", "or", "xor", "add", "sub" }

\* (variant: every reduction starts from 0)
ConstOpFromZero(name) ==
    CASE name = "and" -> <<"&", 0>>
      [] name = "or" -> <<"|", 0>>
      [] name = "xor" -> <<"^", 0>>
      [] name = "add" -> <<"+", 0>>
      [] name = "sub" -> <<"-", 0>>

ConstOp(name) ==
    CASE name = "and" -> <<"&", -1>>
      [] name = "or" -> <<"|", 0>>
      [] name = "xor" -> <<"^", 0>>
      [] name = "add" -> <<"+", 0>>
      [] name = "sub" -> <<"-", 0>>

\* (variant: the event map gains an entry at every event line)
AddEventAlways(events, name) ==
    Append(events, name)

AddEvent(events, name) ==
    IF \E k \in 1..Len(events) : events[k] = name THEN events ELSE Append(events, name)

\* The body of the loop over the lines, for one line.
parse_line(p, line) ==
    LET n == Len(line.args)
        pd == p.progdef
        at == [p EXCEPT !.lno = @ + 1]
        raise(r) == [at EXCEPT !.result = r]
        with(newpd) == [at EXCEPT !.progdef = newpd]
    IN  CASE line = NoMatch -> raise(Error("Invalid line"))
          [] line.op = "" -> at
          [] line.op = "dios" -> [at EXCEPT !.dios = TRUE]
          [] line.op \notin { "", "dios", "include", "module", "evqueue", "event",
                              "phase", "irq", "wake", "const" } /\ line # NoMatch ->
                raise(Error("Unknown events op"))
          [] line.op = "wake" /\ n = 0 ->
                [raise(Crash("TypeError")) EXCEPT !.progdef.sleepable = TRUE]
          [] line.op \in { "include", "module", "evqueue", "event", "phase", "irq",
                           "const" } /\ n = 0 ->
                raise(Crash("TypeError"))
          [] line.op = "include" /\ n > 0 ->
                IF n # 1 THEN raise(Error("Expected one argument to 'include'"))
                ELSE with([pd EXCEPT !.includes = Append(@, Unquote(line.args[1]))])
          [] line.op = "module" /\ n > 0 ->
                IF n # 1 THEN raise(Error("Expected one argument to 'module'"))
                ELSE with([pd EXCEPT
                             !.modules = Append(@, ModuleName(Unquote(line.args[1])))])
          [] line.op = "evqueue" /\ n > 0 ->
                IF n # 1 /\ n # 2
                THEN raise(Error("Expected one or two arguments to 'evqueue'"))
                ELSE with([pd EXCEPT
                             !.queues = Append(@, QueueDef(line.args[1], <<>>,
                                                 IF n > 1 THEN line.args[2] ELSE None))])
          [] line.op = "event" /\ n > 0 ->
                IF n # 1 THEN raise(Error("Expected one argument to 'event'"))
                ELSE IF pd.queues = <<>>
                THEN [raise(Crash("IndexError")) EXCEPT
                        !.progdef.events = AddEvent(@, line.args[1])]
                ELSE with([pd EXCEPT
                             !.events = AddEvent(@, line.args[1]),
                             !.queues[Len(pd.queues)].events = Append(@, line.args[1])])
          [] line.op = "phase" /\ n > 0 ->
                IF n # 1 THEN raise(Error("Expected one argument to 'phase'"))
                ELSE with([pd EXCEPT !.phases = Append(@, line.args[1])])
          [] line.op = "irq" /\ n > 0 ->
                IF n # 3 THEN raise(Error("Expected three arguments to 'irq'"))
                ELSE IF ~StartsWithIrq(line.args[1])
                THEN raise(Error("Phase names used for IRQ must start with 'irq_'"))
                ELSE with([pd EXCEPT
                             !.irqs = Append(@, IRQDef(line.args[1], line.args[2],
                                                       line.args[3]))])
          [] line.op = "wake" /\ n > 0 ->
                IF n = 1 /\ line.args[1] = "always"
                THEN [with([pd EXCEPT !.sleepable = TRUE]) EXCEPT !.wakealways = TRUE]
                ELSE IF n = 2
                THEN with([pd EXCEPT
                             !.sleepable = TRUE,
                             !.wakesrcs = Append(@, WakeSourceDef(line.args[1],
                                                                  line.args[2]))])
                ELSE [raise(Error("Expected two arguments to 'wake'")) EXCEPT
                        !.progdef.sleepable = TRUE]
          [] line.op = "const" /\ n > 0 ->
                IF n # 2 THEN raise(Error("Expected two arguments to 'const'"))
                ELSE IF line.args[2] \notin ConstOps THEN raise(Crash("KeyError"))
                ELSE with([pd EXCEPT
                             !.consts = Append(@, ConstDef(line.args[1],
                                                           ConstOp(line.args[2])[1],
                                                           ConstOp(line.args[2])[2]))])

\* (variant: the phases the interrupt bindings name are left out)
AllPhasesNoIrq(pd) ==
    { None, "init", "idle", "irq", "sleep" }
    \cup { pd.phases[k] : k \in 1..Len(pd.phases) }

all_phases(pd) ==
    { None, "init", "idle", "irq", "sleep" }
    \cup { pd.phases[k] : k \in 1..Len(pd.phases) }
    \cup { pd.irqs[k].phase : k \in 1..Len(pd.irqs) }

\* (variant: queues without an owning phase are visited too)
CheckedEventsAnyKey(pd, phase) ==
    Concat([k \in 1..Len(pd.queues) |->
              IF pd.queues[k].phase # phase THEN <<>> ELSE pd.queues[k].events])

\* The events of the queues the duplicate check visits for a phase, in the
\* order it visits them.
CheckedEvents(pd, phase) ==
    Concat([k \in 1..Len(pd.queues) |->
              IF pd.queues[k].phase = None \/ pd.queues[k].phase # phase THEN <<>>
              ELSE pd.queues[k].events])

SeenTwice(evs) == \E a, b \in 1..Len(evs) : a < b /\ evs[a] = evs[b]

\* (variant: the wake conflict is not checked)
ParseEndWakeUnchecked(p) ==
    LET pd == p.progdef
        raise(r) == [p EXCEPT !.result = r]
    IN  IF ~p.dios THEN raise(Error("No 'dios' marker found in file"))
        ELSE IF \E k \in 1..Len(pd.queues) : pd.queues[k].phase \notin all_phases(pd)
        THEN raise(ErrorNoLine("Unknown phase requested for evqueue"))
        ELSE IF \E phase \in all_phases(pd) : SeenTwice(CheckedEvents(pd, phase))
        THEN raise(ErrorNoLine("Both queue and queue in phase contain event"))
        ELSE raise(Result("ok", "", FALSE))

\* (variant: the marker is not required)
ParseEndMarkerUnchecked(p) ==
    LET pd == p.progdef
        raise(r) == [p EXCEPT !.result = r]
    IN  IF \E k \in 1..Len(pd.queues) : pd.queues[k].phase \notin all_phases(pd)
        THEN raise(ErrorNoLine("Unknown phase requested for evqueue"))
        ELSE IF \E phase \in all_phases(pd) : SeenTwice(CheckedEvents(pd, phase))
        THEN raise(ErrorNoLine("Both queue and queue in phase contain event"))
        ELSE IF p.wakealways /\ pd.wakesrcs # <<>>
        THEN raise(Error("Both 'wake always' and explicit source(s) specified"))
        ELSE raise(Result("ok", "", FALSE))

\* The checks after the loop.
parse_end(p) ==
    LET pd == p.progdef
        raise(r) == [p EXCEPT !.result = r]
    IN  IF ~p.dios THEN raise(Error("No 'dios' marker found in file"))
        ELSE IF \E k \in 1..Len(pd.queues) : pd.queues[k].phase \notin all_phases(pd)
        THEN raise(ErrorNoLine("Unknown phase requested for evqueue"))
        ELSE IF \E phase \in all_phases(pd) : SeenTwice(CheckedEvents(pd, phase))
        THEN raise(ErrorNoLine("Both queue and queue in phase contain event"))
        ELSE IF p.wakealways /\ pd.wakesrcs # <<>>
        THEN raise(Error("Both 'wake always' and explicit source(s) specified"))
        ELSE raise(Result("ok", "", FALSE))

\* parse_lines on a whole file: the loop stops at the first line that raises.
RECURSIVE ParseFrom(_, _, _)
ParseFrom(p, ls, k) ==
    IF p.result # Parsing THEN p
    ELSE IF k > Len(ls) THEN parse_end(p)
    ELSE CHOOSE r \in { ParseFrom(v, ls, k + 1) : v \in { parse_line(p, ls[k]) } } : TRUE

parse_lines(ls) == CHOOSE r \in { ParseFrom(v, ls, 1) : v \in { ParseStart } } : TRUE

(***************************************************************************)
(* splitargs: the argument string of a line, a sequence of characters,     *)
(* split into its tokens (STR_RE, ID_RE, NUM_RE), or a lexical error.      *)
(***************************************************************************)
Letters ==
    { "a", "b", "c", "d", "e", "f", "g", "h", "i", "j", "k", "l", "m", "n", "o", "p", "q",
      "r", "s", "t", "u", "v", "w", "x", "y", "z", "A", "B", "K", "P", "Q", "X", "Y" }
Digits == { "0", "1", "2", "3", "4", "5", "6", "7", "8", "9" }

\* str.isidentifier and str.isdigit of one character; \w; the class of NUM_RE;
\* what lstrip removes.
IsIdentifier(ch) == ch \in Letters \cup { "_" }
IsDigit(ch) == ch \in Digits
WordChars == Letters \cup Digits \cup { "_" }
NumChars == Digits \cup { "a", "b", "c", "d", "e", "f", "A", "B", "o", "x", "X" }
SpaceChars == { " ", "\t" }

\* The index after the longest run from k of characters in the class.
RECURSIVE RunEnd(_, _, _)
RunEnd(argstr, k, class) ==
    IF k <= Len(argstr) /\ argstr[k] \in class THEN RunEnd(argstr, k + 1, class) ELSE k

\* STR_RE from the character after the opening quote: the index after the
\* closing quote, or 0 when the string is not terminated.
RECURSIVE StrEnd(_, _)
StrEnd(argstr, k) ==
    IF k > Len(argstr) THEN 0
    ELSE IF argstr[k] = "\"" THEN k + 1
    ELSE IF argstr[k] = "\\" THEN (IF k + 1 > Len(argstr) THEN 0 ELSE StrEnd(argstr, k + 2))
    ELSE StrEnd(argstr, k + 1)

\* m.group(0): the characters from k up to e, as one string.
RECURSIVE Text(_, _, _)
Text(argstr, k, e) == IF k >= e THEN "" ELSE argstr[k] \o Text(argstr, k + 1, e)

Lexed(args) == [err |-> "", args |-> args]
LexError(msg) == [err |-> msg, args |-> <<>>]

\* The loop of splitargs with argstr[k..] still to read.
RECURSIVE SplitFrom(_, _, _)
SplitFrom(argstr, k, args) ==
    IF k > Len(argstr) THEN Lexed(args)
    ELSE LET e == CASE argstr[k] = "\"" -> StrEnd(argstr, k + 1)
                    [] argstr[k] # "\"" /\ IsIdentifier(argstr[k]) -> RunEnd(argstr, k, WordChars)
                    [] argstr[k] # "\"" /\ ~IsIdentifier(argstr[k]) /\ IsDigit(argstr[k]) ->
                          RunEnd(argstr, k, NumChars)
                    [] OTHER -> -1
             s == RunEnd(argstr, e, SpaceChars)
             t == RunEnd(argstr, s + 1, SpaceChars)
         IN  IF e = 0 THEN LexError("Unterminated string")
             ELSE IF e = -1 THEN LexError("Unknown argument")
             ELSE IF s > Len(argstr) THEN Lexed(Append(args, Text(argstr, k, e)))
             ELSE IF argstr[s] # "," THEN LexError("Expected comma in argument")
             ELSE SplitFrom(argstr, t, Append(args, Text(argstr, k, e)))

splitargs(argstr) == SplitFrom(argstr, 1, <<>>)

\* A line as LINE_RE matches it: the op and, when the args group matched,
\* the argument string.
RawLine(op, has, argstr) == [op |-> op, has |-> has, argstr |-> argstr]

\* The body of the loop over the lines, for one line of text: the argument
\* string is split first, and a lexical error is raised with path:lno.
lex_line(p, raw) ==
    IF raw.op \in { "", NoMatch.op } \/ ~raw.has THEN parse_line(p, Line(raw.op, <<>>))
    ELSE IF splitargs(raw.argstr).err # ""
    THEN [p EXCEPT !.lno = @ + 1, !.result = Error(splitargs(raw.argstr).err)]
    ELSE parse_line(p, Line(raw.op, splitargs(raw.argstr).args))

(***************************************************************************)
(* The descriptions that are generated and run.  A build is a ProgramDef   *)
(* together with the module sources: frags lists, per aspect gate, the     *)
(* code a module may run there (a fragment may also be empty), and hw the  *)
(* interrupt flags the hardware raises.                                    *)
(***************************************************************************)
NoPost == <<0, 0>>
Snip(ins, post) == [ins |-> ins, post |-> post]
NoSnip == Snip(<<>>, NoPost)
Frag(gate, aspect, snip) == [gate |-> gate, aspect |-> aspect, snip |-> snip]

\* diospost_<queue> <Queue>_<Event j>, as a module writes it.
Post(pd, q, j) == Snip(diospost_queue(pd, q, QueueEventConst(q, j)), <<q, j>>)
Store(f, v) == Snip(<< Movlw(v), Movwf(f) >>, NoPost)
Load(v) == Snip(<< Movlw(v) >>, NoPost)
EnableInterrupts == Snip(<< Bsf(INTCON, GIE) >>, NoPost)
CallPhase(phase) == Snip(<< Pagesel("phase_" \o phase), Call("phase_" \o phase) >>, NoPost)

\* A build of a description: what parse_lines makes of its lines.
Build(src, frags, hw) ==
    [prog |-> parse_lines(src).progdef,
     accepted |-> parse_lines(src).result.st = "ok",
     frags |-> frags, hw |-> hw]

EventLines(e, n) == [j \in 1..n |-> Line("event", << e \o ToString(j - 1) >>)]

\* One queue in phase idle, posted from the idle phase and from the phase
\* bound to the timer interrupt.
IdleQueueSource(n) ==
    << Line("dios", <<>>),
       Line("module", << "\"a.inc\"" >>),
       Line("wake", << "always" >>),
       Line("irq", << "irq_t", INTCON, T0IF >>),
       Line("evqueue", << "QUEUE", "idle" >>) >>
    \o EventLines("E", n)

IdleQueueProgram(n) == parse_lines(IdleQueueSource(n)).progdef

IdleQueueBuild(n, mainposts, irqposts) ==
    Build(IdleQueueSource(n),
          { Frag("diosh", "init", EnableInterrupts) }
          \cup { Frag("diosh", "idle", Post(IdleQueueProgram(n), 1, j)) : j \in mainposts }
          \cup { Frag("diosh", "irq_t", Post(IdleQueueProgram(n), 1, j)) : j \in irqposts },
          { <<INTCON, T0IF>> })

\* Two queues in phase idle (priority mode), HI before LO.  The modules post
\* with the macros and also set a bitmap bit of LO themselves.
SetBit(pd, q, j) ==
    Snip(<< Banksel(dios_q(pd, q) + (j \div 8)), Bsf(dios_q(pd, q) + (j \div 8), j % 8) >>,
         NoPost)

PrioritySource(nhi, nlo) ==
    << Line("dios", <<>>),
       Line("module", << "\"a.inc\"" >>),
       Line("evqueue", << "HI", "idle" >>) >>
    \o EventLines("H", nhi)
    \o << Line("evqueue", << "LO", "idle" >>) >>
    \o EventLines("L", nlo)

PriorityProgram(nhi, nlo) == parse_lines(PrioritySource(nhi, nlo)).progdef

PriorityBuild(nhi, nlo) ==
    Build(PrioritySource(nhi, nlo),
          { Frag("diosh", "idle", Post(PriorityProgram(nhi, nlo), 1, 0)),
            Frag("diosh", "idle", SetBit(PriorityProgram(nhi, nlo), 2, 0)),
            Frag("diosh", "event_LO_L0", Post(PriorityProgram(nhi, nlo), 1, 0)) },
          {})

\* Two queues sharing phase idle, fed from the ISR of a bound phase that owns
\* no queue and from an event handler of the lower queue.
PriorityIrqSource ==
    << Line("dios", <<>>),
       Line("module", << "\"a.inc\"" >>),
       Line("irq", << "irq_t", INTCON, T0IF >>),
       Line("evqueue", << "HI", "idle" >>) >>
    \o EventLines("H", 2)
    \o << Line("evqueue", << "LO", "idle" >>) >>
    \o EventLines("L", 4)

PriorityIrqProgram == parse_lines(PriorityIrqSource).progdef

PriorityIrqBuild ==
    Build(PriorityIrqSource,
          { Frag("diosh", "init", EnableInterrupts),
            Frag("diosh", "irq_t", Post(PriorityIrqProgram, 1, 0)),
            Frag("diosh", "irq_t", SetBit(PriorityIrqProgram, 2, 0)),
            Frag("diosh", "event_LO_L0", Post(PriorityIrqProgram, 1, 1)) },
          { <<INTCON, T0IF>> })

\* Two interrupt bindings; the phase of the first owns nq queues.
IrqSource(nq) ==
    << Line("dios", <<>>),
       Line("module", << "\"a.inc\"" >>),
       Line("irq", << "irq_t", INTCON, T0IF >>),
       Line("irq", << "irq_u", INTCON, INTF >>) >>
    \o Concat([k \in 1..nq |->
                 << Line("evqueue", << "QUEUE", "irq_t" >>) >> \o EventLines("E", 2)])

IrqProgram(nq) == parse_lines(IrqSource(nq)).progdef

IrqBuild(nq) ==
    Build(IrqSource(nq),
          { Frag("diosh", "init", EnableInterrupts),
            Frag("diosh", "idle", Load(165)),
            Frag("diosh", "idle", Store(PCLATH, 8)),
            Frag("diosh", "irq", Load(90)),
            Frag("diosh", "irq_t", Store(STATUS, 5)),
            Frag("diosph", "irq_u", Store(PCLATH, 16)) }
          \cup { Frag("diosh", "idle", Post(IrqProgram(nq), q, 0)) : q \in 1..nq },
          { <<INTCON, T0IF>>, <<INTCON, INTF>> })

\* A user phase that owns a queue and two unassigned queues, all run from
\* the idle phase.
CallSource ==
    << Line("dios", <<>>),
       Line("module", << "\"a.inc\"" >>),
       Line("phase", << "aphase" >>),
       Line("evqueue", << "QUEUE", "aphase" >>) >>
    \o EventLines("E", 2)
    \o << Line("evqueue", << "U" >>), Line("event", << "E0" >>),
          Line("evqueue", << "V" >>), Line("event", << "E0" >>) >>

CallProgram == parse_lines(CallSource).progdef

CallBuild ==
    Build(CallSource,
          { Frag("diosh", "idle", Post(CallProgram, 1, 0)),
            Frag("diosh", "idle", SetBit(CallProgram, 2, 0)),
            Frag("diosh", "idle", CallPhase("aphase")),
            Frag("diosh", "idle", Snip(process_queue(CallProgram, 2), NoPost)) },
          {})

\* Two modules, a queue in phase init, and a sleep gate with two explicit
\* wake sources or with wake always; no idle queue.  The modules may enable
\* interrupts and a wake source.
WakeSource(always) ==
    << Line("dios", <<>>),
       Line("module", << "\"a.inc\"" >>),
       Line("module", << "\"b.inc\"" >>) >>
    \o (IF always THEN << Line("wake", << "always" >>) >>
        ELSE << Line("wake", << "INTCON", "INTE" >>),
                Line("wake", << "INTCON", "T0IE" >>) >>)
    \o << Line("evqueue", << "QUEUE", "init" >>), Line("event", << "A" >>) >>

WakeProgram(always) == parse_lines(WakeSource(always)).progdef

WakeBuild(always) ==
    Build(WakeSource(always),
          { Frag("diosh", "init", EnableInterrupts),
            Frag("diosh", "init", Post(WakeProgram(always), 1, 0)),
            Frag("diosh", "idle", Snip(<< Bsf(INTCON, T0IE) >>, NoPost)) },
          {})

\* A tiny queue in phase idle, posted in the post pass of the phase; the
\* module's idle code may select the timer's clock source, a register in
\* bank 1.
BankedSource ==
    << Line("dios", <<>>),
       Line("module", << "\"a.inc\"" >>),
       Line("evqueue", << "QUEUE", "idle" >>),
       Line("event", << "A" >>),
       Line("event", << "B" >>) >>

BankedProgram == parse_lines(BankedSource).progdef

BankedBuild ==
    Build(BankedSource,
          { Frag("diosh", "idle", Snip(<< Banksel(OPTION_REG), Bcf(OPTION_REG, T0CS) >>,
                                       NoPost)),
            Frag("diosph", "idle", Post(BankedProgram, 1, 0)) },
          {})

Builds ==
    << IdleQueueBuild(2, {0, 1}, {0}),
       IdleQueueBuild(9, {0, 8}, {8}),
       IdleQueueBuild(17, {0, 1, 16}, {0}),
       PriorityBuild(2, 4),
       PriorityBuild(2, 17),
       PriorityIrqBuild,
       IrqBuild(0),
       IrqBuild(1),
       CallBuild,
       WakeBuild(FALSE),
       WakeBuild(TRUE),
       BankedBuild >>

prog == build.prog

LabelIdx(l) == map.label[l]

(***************************************************************************)
(* The listing of a generated program: the address of every label, and,    *)
(* for the properties, where the parts the emitters wrote begin and end.   *)
(***************************************************************************)
LabelsOf(c) == { c[k].l : k \in { n \in 1..Len(c) : c[n].op = "label" } }

AddressOf(c, l) == CHOOSE k \in 1..Len(c) : c[k] = Label(l)

StartLabel(pd, q) ==
    IF pd.queues[q].phase = None THEN "handle_" \o Lower(pd.queues[q].name)
    ELSE "phase_" \o pd.queues[q].phase

\* The last instruction of the handler of queue q (a queue with an event).
HandlerLast(pd, c, q) ==
    IF is_large(pd.queues[q]) THEN AddressOf(c, qendlabel(pd.queues[q]))
    ELSE (IF is_tiny(pd.queues[q])
          THEN AddressOf(c, bendlabel(pd.queues[q], Len(pd.queues[q].events) - 1))
          ELSE AddressOf(c, wendlabel(pd.queues[q], QBytes(pd.queues[q]) - 1)))
         + (IF phase_has_priorities(pd, pd.queues[q].phase) THEN 4 ELSE 0)

HandlerFirst(pd, c, q) ==
    HandlerLast(pd, c, q) + 1 - Len(generate_queue_handler(pd, q, StartLabel(pd, q)))

Emitted(pd, q) == pd.queues[q].phase \in EmittedPhases(pd)

\* Where the sleep gate starts, and in it the test of GIE and the closing
\* test of diosqsc for the k-th queue of phase idle.
GateFirst(pd, c) == AddressOf(c, "phase_sleep") - Len(SleepGate(pd))
GateGie(pd, c) == GateFirst(pd, c) + 1 + 3 * Len(pd.wakesrcs) + 1

RECURSIVE GateQsc(_, _, _)
GateQsc(pd, c, k) ==
    IF k = 0 THEN GateGie(pd, c) + 1
    ELSE GateQsc(pd, c, k - 1) + 1 + Len(diosqsc_queue(pd, PhaseQueues(pd, "idle")[k]))

Listing(pd, c) ==
    [label |-> [l \in LabelsOf(c) |-> AddressOf(c, l)],
     first |-> [q \in 1..Len(pd.queues) |->
                  IF Emitted(pd, q) THEN HandlerFirst(pd, c, q) ELSE 0],
     last |-> [q \in 1..Len(pd.queues) |->
                  IF Emitted(pd, q) THEN HandlerLast(pd, c, q) ELSE 0],
     impl |-> [l \in { bimpllabel(pd.queues[q], j) :
                         q \in 1..Len(pd.queues), j \in 0..LargeLimit } \cap LabelsOf(c) |->
                  CHOOSE e \in (1..Len(pd.queues)) \X (0..LargeLimit) :
                      bimpllabel(pd.queues[e[1]], e[2]) = l],
     gate |-> IF pd.sleepable THEN GateFirst(pd, c) ELSE 0,
     gie |-> IF pd.sleepable THEN GateGie(pd, c) ELSE 0,
     qsc |-> IF pd.sleepable
             THEN [k \in 1..Len(PhaseQueues(pd, "idle")) |-> GateQsc(pd, c, k)]
             ELSE <<>>,
     qsc0 |-> IF pd.sleepable
              THEN [k \in 1..Len(PhaseQueues(pd, "idle")) |-> GateQsc(pd, c, k - 1) + 2]
              ELSE <<>>,
     irqtest |-> [k \in 1..Len(pd.irqs) |->
                    AddressOf(c, "dios_irqend_" \o pd.irqs[k].phase) - 2],
     irqimpl |-> [k \in 1..Len(pd.irqs) |->
                    AddressOf(c, "dios_irqimpl_" \o pd.irqs[k].phase)],
     irqphase |-> [k \in 1..Len(pd.irqs) |->
                    AddressOf(c, "phase_" \o pd.irqs[k].phase)],
     phend |-> [k \in 1..Len(pd.irqs) |->
                  AddressOf(c, "phase_" \o pd.irqs[k].phase)
                  + Len(generate_phase(pd.irqs[k].phase, pd))]]

(***************************************************************************)
(* Execution of the generated program on the PIC14 core.  The register    *)
(* file is banked: banksel sets RP0 and RP1 of STATUS to the bank of its    *)
(* operand, and a file operand reaches the selected bank (see At).  Banks 0 *)
(* and 1 are modelled.                                                      *)
(***************************************************************************)
MaxStack == 2

Frame(p, snip) == [pc |-> p, pend |-> snip]

InSnip == pend.ins # <<>>
Cur == IF InSnip THEN Head(pend.ins) ELSE code[pc]

\* Control after the current instruction when the next n - 1 are skipped.
After(n) ==
    IF InSnip
    THEN IF n < Len(pend.ins)
         THEN Frame(pc, [pend EXCEPT !.ins = SubSeq(@, n + 1, Len(@))])
         ELSE Frame(pc + (n - Len(pend.ins)), NoSnip)
    ELSE Frame(pc + n, NoSnip)

\* The register an instruction's file operand reaches: the operand's low 7
\* bits in the bank STATUS selects, except for the registers present in every
\* bank (INDF, PCL, STATUS, FSR, PCLATH, INTCON and the shared area).
Mirrored == { 0, 2, STATUS, 4, PCLATH, INTCON }

At(f) ==
    IF (f % BankSize) \in Mirrored \/ (f % BankSize) >= SharedBase THEN f % BankSize
    ELSE (f % BankSize) + BankSize * Bit(mem[STATUS], RP0)
         + 2 * BankSize * Bit(mem[STATUS], RP1)

\* STATUS after banksel f.
Selected(status, f) ==
    LET rp0 == IF (f \div BankSize) % 2 = 1 THEN BitSet(status, RP0) ELSE BitClr(status, RP0)
    IN  IF (f \div (2 * BankSize)) % 2 = 1 THEN BitSet(rp0, RP1) ELSE BitClr(rp0, RP1)

SetZ(m, zero) == [m EXCEPT ![STATUS] = IF zero THEN BitSet(@, Z) ELSE BitClr(@, Z)]

IntPending ==
    /\ Bit(mem[INTCON], GIE) = 1
    /\ \E h \in build.hw : Bit(mem[h[1]], h[2]) = 1

WakePending == \E h \in build.hw : Bit(mem[h[1]], h[2]) = 1

\* The snippets the module fragment at an include may run.
Snippets(i) ==
    { NoSnip } \cup
    { fr.snip : fr \in { x \in build.frags :
                           x.gate = i.d /\ x.aspect = i.l } }

HasCall(snip) == \E k \in 1..Len(snip.ins) : snip.ins[k].op = "call"

\* The machine state after instruction i (snip: the fragment an include runs).
Effect(i, snip) ==
    LET here == [pc |-> pc, pend |-> pend, stack |-> stack, W |-> W, mem |-> mem,
                 inIsr |-> inIsr, asleep |-> FALSE]
        go(fr) == [here EXCEPT !.pc = fr.pc, !.pend = fr.pend]
        next == go(After(1))
        skip == go(After(2))
        v == mem[At(i.f)]
    IN  CASE i.op = "label" -> next
          [] i.op = "pagesel" ->
                [next EXCEPT !.mem = [mem EXCEPT ![PCLATH] = BitClr(BitClr(@, 3), 4)]]
          [] i.op = "banksel" ->
                [next EXCEPT !.mem = [mem EXCEPT ![STATUS] = Selected(@, i.f)]]
          [] i.op = "bcf" -> [next EXCEPT !.mem = [mem EXCEPT ![At(i.f)] = BitClr(@, i.b)]]
          [] i.op = "bsf" -> [next EXCEPT !.mem = [mem EXCEPT ![At(i.f)] = BitSet(@, i.b)]]
          [] i.op = "btfsc" -> IF Bit(v, i.b) = 0 THEN skip ELSE next
          [] i.op = "btfss" -> IF Bit(v, i.b) = 1 THEN skip ELSE next
          [] i.op = "movf" ->
                [next EXCEPT !.W = IF i.d = "W" THEN v ELSE W, !.mem = SetZ(mem, v = 0)]
          [] i.op = "movwf" -> [next EXCEPT !.mem = [mem EXCEPT ![At(i.f)] = W]]
          [] i.op = "swapf" ->
                IF i.d = "W" THEN [next EXCEPT !.W = Swap(v)]
                ELSE [next EXCEPT !.mem = [mem EXCEPT ![At(i.f)] = Swap(v)]]
          [] i.op = "iorwf" ->
                IF i.d = "W"
                THEN [next EXCEPT !.W = BitOr(W, v), !.mem = SetZ(mem, BitOr(W, v) = 0)]
                ELSE [next EXCEPT !.mem = SetZ([mem EXCEPT ![At(i.f)] = BitOr(W, v)],
                                               BitOr(W, v) = 0)]
          [] i.op = "clrf" -> [next EXCEPT !.mem = SetZ([mem EXCEPT ![At(i.f)] = 0], TRUE)]
          [] i.op = "clrw" -> [next EXCEPT !.W = 0, !.mem = SetZ(mem, TRUE)]
          [] i.op = "movlw" -> [next EXCEPT !.W = i.f]
          [] i.op = "goto" -> go(Frame(LabelIdx(i.l), NoSnip))
          [] i.op = "call" ->
                [go(Frame(LabelIdx(i.l), NoSnip)) EXCEPT
                    !.stack = Append(stack, After(1))]
          [] i.op = "return" ->
                [go(stack[Len(stack)]) EXCEPT !.stack = SubSeq(stack, 1, Len(stack) - 1)]
          [] i.op = "retfie" ->
                [go(stack[Len(stack)]) EXCEPT
                    !.stack = SubSeq(stack, 1, Len(stack) - 1),
                    !.inIsr = FALSE,
                    !.mem = [mem EXCEPT ![INTCON] = BitSet(@, GIE)]]
          [] i.op = "sleep" -> [next EXCEPT !.asleep = ~WakePending]
          [] i.op = "include" -> go(Frame(pc + 1, snip))

(***************************************************************************)
(* History of the run, read by the properties only.                        *)
(***************************************************************************)
\*   ctx      W, STATUS and PCLATH when the running ISR invocation was entered
\*   isrsnip  a module fragment ran in this ISR invocation
\*   owed     events whose post macro completed and whose implementation has
\*            not been entered since
\*   proc     queues whose handler entered an event implementation since the
\*            handler was last entered
\*   gate     what the running pass through the sleep gate saw
\*   irq      what this ISR invocation did with the bindings
\*   pass     the running drain pass of each queue (see ObsPass)
\*   main     what mainline has done since reset: how often it passed _start
\*            and phase_init (counted up to 2), whether it has passed
\*            phase_idle, whether phase code (a phase label, a module
\*            include) ran before it first passed phase_init, and whether
\*            every queue byte was zero when it did
GateInit == [in |-> FALSE, wake |-> FALSE, gie |-> FALSE, work |-> FALSE, empty |-> TRUE]
MainInit == [start |-> 0, init |-> 0, idle |-> FALSE, phase |-> FALSE, zeroed |-> FALSE]
IrqInit == [tested |-> <<>>, set |-> {}, clr |-> {}, run |-> <<>>, ends |-> {}, again |-> {}]

PassInit == [todo |-> {}, ran |-> {}, twice |-> {}, back |-> {}]

ObsInit ==
    [ctx |-> <<0, 0, 0>>, isrsnip |-> FALSE, owed |-> {}, proc |-> {},
     gate |-> GateInit, irq |-> IrqInit, main |-> MainInit, pass |-> PassInit]

\* Queue q has the bitmap bit of one of its events set.
HasPosted(q) ==
    \E j \in 0..(Len(prog.queues[q].events) - 1) :
        Bit(mem[dios_q(prog, q) + (j \div 8)], j % 8) = 1

\* Queue q is empty as its shape records it: state bit 0 of a large
\* queue is clear, the bitmap bytes of another queue are zero.
QueueEmpty(q) ==
    IF is_large(prog.queues[q]) THEN Bit(mem[dios_qstate(prog, q)], 0) = 0
    ELSE \A i \in 0..(QBytes(prog.queues[q]) - 1) : mem[dios_q(prog, q) + i] = 0

\* The instruction about to run completes a post macro.
Posted == InSnip /\ Len(pend.ins) = 1 /\ pend.post # NoPost

\* The instruction about to run is the bit clear that opens an event
\* implementation.
Served ==
    /\ ~InSnip
    /\ code[pc].op = "bcf"
    /\ code[pc - 1].op = "label"
    /\ code[pc - 1].l \in DOMAIN map.impl
ServedEvent == map.impl[code[pc - 1].l]

IdleQueue(k) == PhaseQueues(prog, "idle")[k]

ObsOwed ==
    IF Posted THEN obs.owed \cup { pend.post }
    ELSE IF Served THEN obs.owed \ { ServedEvent }
    ELSE obs.owed

ObsProc ==
    IF InSnip THEN obs.proc
    ELSE IF Served THEN obs.proc \cup { ServedEvent[1] }
    ELSE obs.proc \ { q \in DOMAIN map.first : map.first[q] = pc }

ObsGate ==
    IF InSnip \/ inIsr \/ ~prog.sleepable THEN obs.gate
    ELSE IF pc = map.gate THEN [GateInit EXCEPT !.in = TRUE]
    ELSE IF pc = map.gie THEN [obs.gate EXCEPT !.gie = (Bit(mem[INTCON], GIE) = 1)]
    ELSE IF \E k \in 1..Len(prog.wakesrcs) : pc = map.gate + 3 * k - 1
    THEN [obs.gate EXCEPT !.wake =
            @ \/ \E k \in 1..Len(prog.wakesrcs) :
                    /\ pc = map.gate + 3 * k - 1
                    /\ Bit(mem[Symbol(prog.wakesrcs[k].enfile)],
                           Symbol(prog.wakesrcs[k].enbit)) = 1]
    ELSE IF \E k \in DOMAIN map.qsc0 : pc = map.qsc0[k]
    THEN [obs.gate EXCEPT !.work =
            @ \/ \E k \in DOMAIN map.qsc0 : pc = map.qsc0[k] /\ HasPosted(IdleQueue(k))]
    ELSE IF \E k \in DOMAIN map.qsc : pc = map.qsc[k]
    THEN [obs.gate EXCEPT !.empty =
            @ /\ \A k \in DOMAIN map.qsc : pc = map.qsc[k] => QueueEmpty(IdleQueue(k))]
    ELSE IF pc = map.label["phase_sleep_done"] THEN GateInit
    ELSE obs.gate

FlagSet(k) == Bit(mem[prog.irqs[k].flagfile], prog.irqs[k].flagbit) = 1

ObsIrq ==
    IF InSnip \/ ~inIsr THEN obs.irq
    ELSE IF code[pc].op = "retfie" THEN IrqInit
    ELSE [tested |-> obs.irq.tested
                     \o SelectSeq([k \in DOMAIN map.irqtest |-> k],
                                  LAMBDA k : map.irqtest[k] = pc),
          set |-> obs.irq.set
                  \cup { k \in DOMAIN map.irqtest : map.irqtest[k] = pc /\ FlagSet(k) },
          clr |-> obs.irq.clr \cup { k \in DOMAIN map.irqimpl : map.irqimpl[k] + 1 = pc },
          run |-> obs.irq.run
                  \o SelectSeq([k \in DOMAIN map.irqphase |-> k],
                               LAMBDA k : map.irqphase[k] = pc),
          ends |-> obs.irq.ends \cup { k \in DOMAIN map.phend : map.phend[k] = pc },
          again |-> obs.irq.again
                    \cup { k \in obs.irq.ends : map.phend[k] = pc }]

\* Every state byte and bitmap byte of every queue is zero.
QueuesZero ==
    \A a \in UdataBase..(dios_qstate(prog, Len(prog.queues) + 1) - 1) : mem[a] = 0

IsPhaseLabel(i) ==
    i.op = "label" /\ i.l \in { "phase_" \o ph : ph \in EmittedPhases(prog) \ { None } }

ObsMain ==
    IF InSnip THEN obs.main
    ELSE [start |-> IF ~inIsr /\ code[pc] = Label("_start") THEN Min(obs.main.start + 1, 2)
                    ELSE obs.main.start,
          init |-> IF ~inIsr /\ code[pc] = Label("phase_init")
                   THEN Min(obs.main.init + 1, 2)
                   ELSE obs.main.init,
          idle |-> obs.main.idle \/ (~inIsr /\ code[pc] = Label("phase_idle")),
          phase |-> obs.main.phase
                    \/ /\ obs.main.init = 0
                       /\ code[pc] # Label("phase_init")
                       /\ code[pc].op = "include" \/ IsPhaseLabel(code[pc]),
          zeroed |-> IF ~inIsr /\ code[pc] = Label("phase_init") /\ obs.main.init = 0
                     THEN QueuesZero ELSE obs.main.zeroed]

\* The pass of a handler: todo holds the events that were pending when the
\* running pass of their queue started and were not served since, ran the
\* events served since the pass of their queue started; twice and back
\* record that an event was served again in one pass, or after an event of
\* a later position of its queue.
ObsPass ==
    IF InSnip THEN obs.pass
    ELSE IF Served
    THEN [todo |-> obs.pass.todo \ { ServedEvent },
          ran |-> obs.pass.ran \cup { ServedEvent },
          twice |-> obs.pass.twice
                    \cup { e \in { ServedEvent } : e \in obs.pass.ran },
          back |-> obs.pass.back
                   \cup { e \in { ServedEvent } :
                            \E r \in obs.pass.ran : r[1] = e[1] /\ r[2] > e[2] }]
    ELSE IF \E q \in DOMAIN map.first : map.first[q] = pc
    THEN LET q == CHOOSE x \in DOMAIN map.first : map.first[x] = pc
         IN  [obs.pass EXCEPT
                !.todo = { e \in @ : e[1] # q }
                         \cup { e \in { q } \X (0..(Len(prog.queues[q].events) - 1)) :
                                  Bit(mem[dios_q(prog, q) + (e[2] \div 8)], e[2] % 8) = 1 },
                !.ran = { e \in @ : e[1] # q }]
    ELSE obs.pass

ObsExec(i, snip) ==
    [ctx |-> IF i.op = "retfie" THEN ObsInit.ctx ELSE obs.ctx,
     isrsnip |-> IF i.op = "retfie" THEN FALSE
                 ELSE obs.isrsnip \/ (inIsr /\ i.op = "include" /\ snip # NoSnip),
     owed |-> ObsOwed,
     proc |-> ObsProc,
     gate |-> ObsGate,
     irq |-> ObsIrq,
     main |-> ObsMain,
     pass |-> ObsPass]

ObsInterrupt ==
    [obs EXCEPT !.ctx = <<W, mem[STATUS], mem[PCLATH]>>, !.isrsnip = FALSE,
                !.irq = IrqInit]

(***************************************************************************)
(* Actions.                                                                *)
(***************************************************************************)
ParseFlags(p) == [dios |-> p.dios, wakealways |-> p.wakealways, lno |-> p.lno]

ParseIdle ==
    /\ lines = <<>>
    /\ progdef = ParseStart.progdef
    /\ pflags = ParseFlags(ParseStart)
    /\ presult = ParseStart.result

\* The register file after reset: the queue bytes hold whatever they held.
ResetMem(pd, garbage) ==
    [a \in 0..MemTop |->
        IF a = STATUS THEN 24
        ELSE IF a >= UdataBase /\ a < dios_qstate(pd, Len(pd.queues) + 1) THEN garbage
        ELSE 0]

Init ==
    /\ build \in { Builds[k] : k \in 1..Len(Builds) }
    /\ gen = "todo"
    /\ code = <<>>
    /\ map = <<>>
    /\ pc = 1
    /\ stack = <<>>
    /\ pend = NoSnip
    /\ inIsr = FALSE
    /\ W = 0
    /\ \E garbage \in {0, 255} : mem = ResetMem(build.prog, garbage)
    /\ asleep = FALSE
    /\ obs = ObsInit
    /\ ParseIdle

\* generate_main on the build's description.
Generate ==
    /\ gen = "todo"
    /\ gen' = IF generate_main_raises(prog) THEN "fail" ELSE "ok"
    /\ code' = IF generate_main_raises(prog) THEN <<>> ELSE generate_main(prog)
    /\ map' = IF generate_main_raises(prog) THEN <<>> ELSE Listing(prog, code')
    /\ UNCHANGED <<build, pc, stack, pend, inIsr, W, mem, asleep, obs>>
    /\ UNCHANGED parsevars

\* One instruction of the generated program.
Exec ==
    /\ gen = "ok"
    /\ ~asleep
    /\ ~IntPending
    /\ \E snip \in (IF Cur.op = "include" THEN Snippets(Cur) ELSE { NoSnip }) :
         /\ HasCall(snip) => Len(stack) < MaxStack
         /\ LET r == Effect(Cur, snip)
            IN  /\ pc' = r.pc
                /\ pend' = r.pend
                /\ stack' = r.stack
                /\ W' = r.W
                /\ mem' = r.mem
                /\ inIsr' = r.inIsr
                /\ asleep' = r.asleep
                /\ obs' = ObsExec(Cur, snip)
    /\ UNCHANGED <<build, gen, code, map>>
    /\ UNCHANGED parsevars

\* The core vectors to the interrupt service routine: GIE is cleared and the
\* return address pushed.
Interrupt ==
    /\ gen = "ok"
    /\ IntPending
    /\ stack' = Append(stack, Frame(pc, pend))
    /\ pend' = NoSnip
    /\ pc' = LabelIdx("_irq")
    /\ inIsr' = TRUE
    /\ mem' = [mem EXCEPT ![INTCON] = BitClr(@, GIE)]
    /\ asleep' = FALSE
    /\ obs' = ObsInterrupt
    /\ UNCHANGED <<build, gen, code, map, W>>
    /\ UNCHANGED parsevars

\* A peripheral raises its interrupt flag.
RaiseIrq ==
    /\ gen = "ok"
    /\ \E h \in build.hw :
         /\ Bit(mem[h[1]], h[2]) = 0
         /\ mem' = [mem EXCEPT ![h[1]] = BitSet(@, h[2])]
    /\ asleep' = FALSE
    /\ UNCHANGED <<build, gen, code, map, pc, stack, pend, inIsr, W, obs>>
    /\ UNCHANGED parsevars

Next == Generate \/ Exec \/ Interrupt \/ RaiseIrq

Spec == Init /\ [][Next]_vars

(***************************************************************************)
(* The generated program on a processor that keeps running: generate_main  *)
(* returns, the core executes the next instruction whenever it is awake,   *)
(* and vectors to _irq whenever an interrupt is pending.                   *)
(***************************************************************************)
LiveBuilds ==
    { IdleQueueBuild(2, {0, 1}, {0}), IrqBuild(0), IrqBuild(1), WakeBuild(FALSE),
      PriorityIrqBuild, PriorityBuild(2, 17) }

InitLive == Init /\ build \in LiveBuilds

SpecLive ==
    InitLive /\ [][Next]_vars
    /\ WF_vars(Generate) /\ WF_vars(Exec) /\ WF_vars(Interrupt)

(***************************************************************************)
(* The parser on its own: lines arrive one at a time, then the file ends.  *)
(***************************************************************************)
MaxLines == 5

LineSet ==
    { Line("dios", <<>>),
      Line("evqueue", << "QA" >>),
      Line("evqueue", << "QB" >>),
      Line("evqueue", << "QA", "idle" >>),
      Line("evqueue", << "QB", "idle" >>),
      Line("evqueue", << "QB", "init" >>),
      Line("event", << "X" >>),
      Line("event", << "Y" >>) }

ParseNow ==
    [progdef |-> progdef, dios |-> pflags.dios, wakealways |-> pflags.wakealways,
     lno |-> pflags.lno, result |-> presult]

InitParse ==
    /\ build = Build(<<>>, {}, {})
    /\ gen = "todo"
    /\ code = <<>>
    /\ map = <<>>
    /\ pc = 1
    /\ stack = <<>>
    /\ pend = NoSnip
    /\ inIsr = FALSE
    /\ W = 0
    /\ mem = ResetMem(EmptyProgram, 0)
    /\ asleep = FALSE
    /\ obs = ObsInit
    /\ ParseIdle

\* One pass of the loop over the lines.
ParseLine ==
    /\ presult = Parsing
    /\ Len(lines) < MaxLines
    /\ \E line \in LineSet :
         /\ lines' = Append(lines, line)
         /\ progdef' = parse_line(ParseNow, line).progdef
         /\ pflags' = ParseFlags(parse_line(ParseNow, line))
         /\ presult' = parse_line(ParseNow, line).result
    /\ UNCHANGED execvars

\* The input is exhausted: the checks after the loop.
ParseEnd ==
    /\ presult = Parsing
    /\ presult' = parse_end(ParseNow).result
    /\ UNCHANGED <<lines, progdef, pflags>>
    /\ UNCHANGED execvars

NextParse == ParseLine \/ ParseEnd

SpecParse == InitParse /\ [][NextParse]_vars

(***************************************************************************)
(* The parser on descriptions that declare phases, interrupt bindings,     *)
(* queues with every kind of owning phase, and wake-up sources.            *)
(***************************************************************************)
MaxOpLines == 4

OpLineSet ==
    { Line("dios", <<>>),
      Line("phase", << "P" >>),
      Line("irq", << "irq_t", INTCON, T0IF >>),
      Line("evqueue", << "QA" >>),
      Line("evqueue", << "QA", "init" >>),
      Line("evqueue", << "QA", "idle" >>),
      Line("evqueue", << "QA", "sleep" >>),
      Line("evqueue", << "QA", "irq" >>),
      Line("evqueue", << "QA", "P" >>),
      Line("evqueue", << "QA", "irq_t" >>),
      Line("evqueue", << "QA", "nosuch" >>),
      Line("wake", << "always" >>),
      Line("wake", << "INTCON", "INTE" >>) }

ParseOpLine ==
    /\ presult = Parsing
    /\ Len(lines) < MaxOpLines
    /\ \E line \in OpLineSet :
         /\ lines' = Append(lines, line)
         /\ progdef' = parse_line(ParseNow, line).progdef
         /\ pflags' = ParseFlags(parse_line(ParseNow, line))
         /\ presult' = parse_line(ParseNow, line).result
    /\ UNCHANGED execvars

NextParseOps == ParseOpLine \/ ParseEnd

SpecParseOps == InitParse /\ [][NextParseOps]_vars

(***************************************************************************)
(* The parser on lines of text: the argument strings are split by          *)
(* splitargs, and the lines include one of each kind the parser rejects.   *)
(***************************************************************************)
MaxRawLines == 4

RawLineSet ==
    { RawLine("dios", FALSE, <<>>),
      RawLine("", FALSE, <<>>),
      RawLine(NoMatch.op, FALSE, <<>>),
      RawLine("evqueue", TRUE, << "Q" >>),
      RawLine("evqueue", TRUE, << "Q", ",", " ", "i", "d", "l", "e" >>),
      RawLine("evqueue", TRUE, << "Q", ",", "n" >>),
      RawLine("evqueue", TRUE, << "Q", " ", "A" >>),
      RawLine("evqueue", TRUE, << "\"", "Q" >>),
      RawLine("evqueue", TRUE, << "#" >>),
      RawLine("event", TRUE, << "X", " " >>),
      RawLine("include", FALSE, <<>>),
      RawLine("include", TRUE, << "a", ",", "b" >>),
      RawLine("foo", FALSE, <<>>),
      RawLine("irq", TRUE, << "a", ",", "b", ",", "1", "x" >>),
      RawLine("const", TRUE, << "K", ",", "m" >>),
      RawLine("const", TRUE, << "K", ",", "\t", "o", "r" >>),
      RawLine("wake", TRUE, << "a", "l", "w", "a", "y", "s" >>),
      RawLine("wake", TRUE, << "f", ",", "b" >>) }

ParseRawLine ==
    /\ presult = Parsing
    /\ Len(lines) < MaxRawLines
    /\ \E raw \in RawLineSet :
         /\ lines' = Append(lines, raw)
         /\ progdef' = lex_line(ParseNow, raw).progdef
         /\ pflags' = ParseFlags(lex_line(ParseNow, raw))
         /\ presult' = lex_line(ParseNow, raw).result
    /\ UNCHANGED execvars

NextParseRaw == ParseRawLine \/ ParseEnd

SpecParseRaw == InitParse /\ [][NextParseRaw]_vars

(***************************************************************************)
(* The assembler on the data definitions: it keeps a symbol table (map),   *)
(* evaluates one directive per step, and knows the symbols the module      *)
(* files define with equ (build.frags).  Expressions are evaluated on      *)
(* two's complement integers.                                              *)
(***************************************************************************)
RECURSIVE BitAnd(_, _)
BitAnd(a, b) ==
    IF a = 0 \/ b = 0 THEN 0
    ELSE IF a = -1 THEN b
    ELSE IF b = -1 THEN a
    ELSE 2 * BitAnd(a \div 2, b \div 2) + (a % 2) * (b % 2)

RECURSIVE BitXor(_, _)
BitXor(a, b) ==
    IF a = 0 THEN b
    ELSE IF b = 0 THEN a
    ELSE IF a = -1 /\ b = -1 THEN 0
    ELSE 2 * BitXor(a \div 2, b \div 2) + (((a % 2) + (b % 2)) % 2)

BitIor(a, b) == a + b - BitAnd(a, b)

Apply(cop, a, b) ==
    CASE cop = "&" -> BitAnd(a, b)
      [] cop = "|" -> BitIor(a, b)
      [] cop = "^" -> BitXor(a, b)
      [] cop = "+" -> a + b
      [] cop = "-" -> a - b

Equ(symbol, value) == [symbol |-> symbol, value |-> value]

Defined(symbol, symtab) ==
    symbol \in DOMAIN symtab \/ \E e \in build.frags : e.symbol = symbol

ValueOf(symbol, symtab) ==
    IF symbol \in DOMAIN symtab THEN symtab[symbol]
    ELSE (CHOOSE e \in build.frags : e.symbol = symbol).value

\* cblock: the names take consecutive values from the start value.
CblockFrom(names, value, symtab) ==
    [n \in { names[k] : k \in 1..Len(names) } |->
        value + (CHOOSE k \in 1..Len(names) : names[k] = n) - 1] @@ symtab

\* The symbol table after directive d.
Assemble(d, symtab) ==
    CASE d.op = "cblock" -> CblockFrom(d.names, d.base * Pow2(d.shift), symtab)
      [] d.op = "set" -> (d.name :> d.value) @@ symtab
      [] d.op = "ifdef" ->
            IF Defined(d.symbol, symtab)
            THEN (d.name :> Apply(d.cop, ValueOf(d.name, symtab), ValueOf(d.symbol, symtab)))
                 @@ symtab
            ELSE symtab

\* Two queues and one constant, reduced with the named reduction; two
\* modules.
ConstSource(opname) ==
    << Line("dios", <<>>),
       Line("module", << "\"a.inc\"" >>),
       Line("module", << "\"b.inc\"" >>),
       Line("evqueue", << "QA" >>),
       Line("event", << "X" >>),
       Line("event", << "Y" >>),
       Line("evqueue", << "QB", "idle" >>),
       Line("event", << "X" >>),
       Line("const", << "aconst", opname >>) >>

EquValues == { 1, 3, 42 }

\* What the modules define: each module may define <module>_aconst.
ModuleEqus ==
    { a \cup b : a \in { {} } \cup { { Equ("a_aconst", v) } : v \in EquValues },
                 b \in { {} } \cup { { Equ("b_aconst", v) } : v \in EquValues } }

\* A queue of as many events as a bit-index constant has room for, followed
\* by a second queue (the description model built directly).
ByteRange == 256

FullQueueProgram ==
    [EmptyProgram EXCEPT
       !.queues = << QueueDef("QA", [j \in 1..ByteRange |-> "E" \o ToString(j - 1)], None),
                     QueueDef("QB", << "E0", "E1" >>, "idle") >>,
       !.events = [j \in 1..ByteRange |-> "E" \o ToString(j - 1)]]

AsmBuilds ==
    { Build(ConstSource(opname), equs, {}) : opname \in ConstOps, equs \in ModuleEqus }
    \cup { [prog |-> FullQueueProgram, accepted |-> TRUE, frags |-> {}, hw |-> {}] }

InitAsm ==
    /\ build \in AsmBuilds
    /\ gen = "todo"
    /\ code = <<>>
    /\ map = <<>>
    /\ pc = 1
    /\ stack = <<>>
    /\ pend = NoSnip
    /\ inIsr = FALSE
    /\ W = 0
    /\ mem = ResetMem(EmptyProgram, 0)
    /\ asleep = FALSE
    /\ obs = ObsInit
    /\ ParseIdle

\* generate_main writes the data definitions.
GenerateData ==
    /\ gen = "todo"
    /\ gen' = "ok"
    /\ code' = DataDefinitions(prog)
    /\ UNCHANGED <<build, map, pc, stack, pend, inIsr, W, mem, asleep, obs>>
    /\ UNCHANGED parsevars

\* The assembler evaluates the next directive.
AssembleNext ==
    /\ gen = "ok"
    /\ pc <= Len(code)
    /\ map' = Assemble(code[pc], map)
    /\ pc' = pc + 1
    /\ UNCHANGED <<build, gen, code, stack, pend, inIsr, W, mem, asleep, obs>>
    /\ UNCHANGED parsevars

NextAsm == GenerateData \/ AssembleNext

SpecAsm == InitAsm /\ [][NextAsm]_vars

(***************************************************************************)
(* The dispatcher macro on its own: a module writes `diospost <event>`, the *)
(* assembler expands it, and the core runs the expansion.                   *)
(***************************************************************************)
PostSources ==
    { << Line("dios", <<>>),
         Line("evqueue", << "QA", "idle" >>), Line("event", << "X" >>),
         Line("event", << "Y" >>),
         Line("evqueue", << "QB", "init" >>), Line("event", << "Y" >>),
         Line("event", << "X" >>) >>,
      << Line("dios", <<>>),
         Line("evqueue", << "QA" >>), Line("event", << "X" >>),
         Line("evqueue", << "QB", "idle" >>), Line("event", << "X" >>),
         Line("event", << "Y" >>),
         Line("evqueue", << "QC", "init" >>), Line("event", << "Z" >>) >>,
      << Line("dios", <<>>), Line("evqueue", << "QA", "idle" >>) >>
         \o EventLines("E", 17)
         \o << Line("evqueue", << "QB", "init" >>), Line("event", << "E16" >>),
               Line("event", << "E0" >>) >> }

PostBuilds == { Build(src, {}, {}) : src \in PostSources }

InitPost ==
    /\ build \in PostBuilds
    /\ gen = "todo"
    /\ code = <<>>
    /\ map = <<>>
    /\ pc = 1
    /\ stack = <<>>
    /\ pend = NoSnip
    /\ inIsr = FALSE
    /\ W = 0
    /\ \E bank \in { 0, 32 } : mem = [ResetMem(build.prog, 0) EXCEPT ![STATUS] = 24 + bank]
    /\ asleep = FALSE
    /\ obs = ObsInit
    /\ ParseIdle

\* The assembler expands `diospost <event>`; the argument is the constant of
\* an event, or a value that is no event's constant.
ExpandPost ==
    /\ gen = "todo"
    /\ \E event \in 0..Len(prog.events) :
         /\ code' = diospost(prog, event)
         /\ map' = [event |-> event, calls |-> DispatchCalls(prog, event)]
    /\ gen' = "ok"
    /\ UNCHANGED <<build, pc, stack, pend, inIsr, W, mem, asleep, obs>>
    /\ UNCHANGED parsevars

\* The core runs the next instruction of the expansion.
RunPost ==
    /\ gen = "ok"
    /\ pc <= Len(code)
    /\ pc' = Effect(code[pc], NoSnip).pc
    /\ mem' = Effect(code[pc], NoSnip).mem
    /\ UNCHANGED <<build, gen, code, map, stack, pend, inIsr, W, asleep, obs>>
    /\ UNCHANGED parsevars

NextPost == ExpandPost \/ RunPost

SpecPost == InitPost /\ [][NextPost]_vars

(***************************************************************************)
(* Properties.                                                             *)
(***************************************************************************)
Queues == 1..Len(prog.queues)

\* Control is at the instruction after the handler of queue q: a pass of
\* the handler has just ended.
PassEnd(q) == ~InSnip /\ map.last[q] # 0 /\ pc = map.last[q] + 1

\* The bit the handler scans for event e = <<q, j>> is set and, for a large
\* queue, so is state bit 0.
StillPending(e) ==
    /\ Bit(mem[dios_q(prog, e[1]) + (e[2] \div 8)], e[2] % 8) = 1
    /\ is_large(prog.queues[e[1]]) => Bit(mem[dios_qstate(prog, e[1])], 0) = 1

\* C1: no posted event is lost.  An event whose post macro completed (from
\* mainline or from the ISR, between any two instructions of the handler) and
\* whose implementation has not been entered since is, when a pass of its
\* queue's handler ends, still pending: its bitmap bit is set and, for a
\* large queue, state bit 0 is set.
C1_NoPostedEventLost ==
    gen = "ok" => \A e \in obs.owed : PassEnd(e[1]) => StillPending(e)

\* C2: the post macro of queue q, given the bit-index constant of the event
\* at position j, sets bit j mod 8 of byte j div 8 of the bitmap of q and
\* writes no other byte of a bitmap (a large queue's macro also sets bit 0 of
\* the queue's state byte).
C2_PostSetsOwnBit ==
    (gen = "ok" /\ InSnip /\ pend.post # NoPost) =>
        \A k \in 1..Len(pend.ins) :
            pend.ins[k].op = "bsf" =>
                \/ /\ pend.ins[k].f = dios_q(prog, pend.post[1]) + (pend.post[2] \div 8)
                   /\ pend.ins[k].b = pend.post[2] % 8
                \/ /\ is_large(prog.queues[pend.post[1]])
                   /\ pend.ins[k].f = dios_qstate(prog, pend.post[1])
                   /\ pend.ins[k].b = 0

\* C3: diosqsc has one sense for every queue shape: its closing test skips
\* the instruction after the macro exactly when the queue is empty.  (The
\* macro is run in the sleep gate, once per queue of phase idle.)
C3_QscSkipsWhenEmpty ==
    [][ (gen = "ok" /\ prog.sleepable /\ ~InSnip /\ ~inIsr /\ ~inIsr')
         => \A k \in DOMAIN map.qsc :
               (pc = map.qsc[k] /\ pc' \in { pc + 1, pc + 2 })
                   => ((pc' = pc + 2) <=> QueueEmpty(IdleQueue(k))) ]_vars

\* C4: the sleep phase is not entered when a queue of phase idle had a
\* posted event while the gate tested it; and when every idle queue was empty
\* when tested, GIE was set and a wake-up source is assumed (wake always),
\* the gate does not branch around the sleep phase.
C4_SleepGate ==
    (gen = "ok" /\ prog.sleepable /\ ~inIsr /\ ~InSnip) =>
        /\ pc = map.label["phase_sleep"] => ~obs.gate.work
        /\ (pc = map.label["phase_sleep"] - 1 /\ prog.wakesrcs = <<>>)
              => ~(obs.gate.gie /\ obs.gate.empty)

\* C5: priority restart.  Every queue of a phase that two or more queues
\* own has a handler, and control leaves that handler towards the next queue
\* only after a pass in which no event implementation was entered.
C5_PriorityRestart ==
    gen # "todo" =>
        \A q \in Queues :
            phase_has_priorities(prog, prog.queues[q].phase) =>
                /\ gen = "ok"
                /\ PassEnd(q) => q \notin obs.proc

\* C6: the ISR terminates: when the phase bound to an interrupt has run to
\* the end of its post pass, the next instructions branch to the binding's
\* end label, and control comes to that point once per invocation.
C6_IrqPhaseBranchesToEnd ==
    (gen = "ok" /\ inIsr /\ ~InSnip) =>
        /\ \A k \in DOMAIN map.phend :
              pc = map.phend[k]
                  => code[pc] = Pagesel("dios_irqend_" \o prog.irqs[k].phase)
        /\ obs.irq.again = {}

\* C7: in one ISR invocation the bindings are tested in declaration order,
\* a bound phase is entered only if its flag was set when tested and after
\* the flag was cleared, at the binding's end label the phase has run exactly
\* if the flag was set when tested, and no bound phase runs twice.
C7_IrqBindings ==
    (gen = "ok" /\ inIsr) =>
        /\ \A n \in 1..Len(obs.irq.tested) : obs.irq.tested[n] = n
        /\ \A n \in 1..Len(obs.irq.run) :
              /\ obs.irq.run[n] \in obs.irq.set
              /\ obs.irq.run[n] \in obs.irq.clr
              /\ \A m \in 1..Len(obs.irq.run) : m # n => obs.irq.run[m] # obs.irq.run[n]
        /\ obs.irq.again = {}
        /\ \A k \in DOMAIN map.irqtest :
              (~InSnip /\ pc = map.irqtest[k] + 2)
                  => /\ k \in { obs.irq.tested[n] : n \in 1..Len(obs.irq.tested) }
                     /\ (k \in obs.irq.set
                            <=> k \in { obs.irq.run[n] : n \in 1..Len(obs.irq.run) })

\* C8: when the ISR returns with retfie, W, STATUS and PCLATH hold the
\* values they had when the ISR was entered.
C8_ContextRestored ==
    (gen = "ok" /\ inIsr /\ ~InSnip /\ code[pc].op = "retfie") =>
        <<W, mem[STATUS], mem[PCLATH]>> = obs.ctx

\* (C8: the ISR is about to return after both bound phases and module
\* fragments ran in it; W and PCLATH held 8 when it was entered.)
C8_Reached ==
    /\ gen = "ok" /\ inIsr /\ ~InSnip /\ code[pc].op = "retfie"
    /\ obs.isrsnip
    /\ obs.ctx[1] = 8
    /\ obs.ctx[3] = 8
    /\ obs.irq.run = <<1, 2>>

\* C9: generate_main completes for every description the parser accepts.
C9_GenerateCompletes ==
    (gen # "todo" /\ build.accepted) => gen = "ok"

\* Two different queues with the same phase key hold the same event name
\* (unassigned: the key None counts when withNone).
SharedEvent(pd, withNone) ==
    \E a, b \in 1..Len(pd.queues) :
        /\ a < b
        /\ pd.queues[a].phase = pd.queues[b].phase
        /\ withNone \/ pd.queues[a].phase # None
        /\ \E x \in 1..Len(pd.queues[a].events), y \in 1..Len(pd.queues[b].events) :
              pd.queues[a].events[x] = pd.queues[b].events[y]

\* The event names of the queues a phase owns, in queue order.
OwnedEvents(pd, phase) ==
    Concat([k \in 1..Len(PhaseQueues(pd, phase)) |->
              pd.queues[PhaseQueues(pd, phase)[k]].events])

DuplicateRaised == presult = ErrorNoLine("Both queue and queue in phase contain event")

\* C10 as stated: a description in which two different queues with the same
\* phase key, unassigned included, hold the same event name is never accepted.
C10_RejectsSharedEventAnyKey ==
    presult.st = "ok" => ~SharedEvent(progdef, TRUE)

\* C10: a description in which two different queues with the same owning
\* phase hold the same event name is never accepted, queues without an owning
\* phase being exempt; the duplicate error is raised only when an event name
\* occurs twice among the events of the queues of one owning phase, so never
\* for queues with different owning phases alone.
C10_RejectsSharedEventInOwnedPhase ==
    /\ presult.st = "ok" => ~SharedEvent(progdef, FALSE)
    /\ DuplicateRaised =>
          \E k \in 1..Len(progdef.queues) :
              /\ progdef.queues[k].phase # None
              /\ SeenTwice(OwnedEvents(progdef, progdef.queues[k].phase))

\* (C10: the duplicate error was raised for two different queues of one
\* owning phase.)
C10_Reached == DuplicateRaised /\ SharedEvent(progdef, FALSE)

\* What the input lines say, read off the input itself.
LinesWith(op) == { k \in 1..Len(lines) : lines[k].op = op }

DiosSeen == LinesWith("dios") # {}

DeclaredPhases == { lines[k].args[1] : k \in LinesWith("phase") }

IrqPhases == { lines[k].args[1] : k \in LinesWith("irq") }

\* The owning phases the evqueue lines name (None: no phase named).
NamedPhases ==
    { IF Len(lines[k].args) > 1 THEN lines[k].args[2] ELSE None :
        k \in LinesWith("evqueue") }

UnknownPhaseRaised == presult = ErrorNoLine("Unknown phase requested for evqueue")

\* The end checks ran on an input with the marker.
EndChecked == presult # Parsing /\ DiosSeen /\ presult.msg # "No 'dios' marker found in file"

\* C11 as stated: after a successful parse every queue's owning phase is
\* unassigned, init, idle, sleep, a phase declared by a phase op or a phase
\* named by an irq op; the built-in name irq is not among them.
C11_OwningPhaseNotIrq ==
    presult.st = "ok" =>
        \A k \in 1..Len(progdef.queues) :
            progdef.queues[k].phase
                \in { None, "init", "idle", "sleep" } \cup DeclaredPhases \cup IrqPhases

\* C11: after a successful parse every queue's owning phase is unassigned,
\* init, idle, irq, sleep, a phase declared by a phase op or a phase named by
\* an irq op, wherever in the input that declaration stands; when the end
\* checks run, the unknown-phase failure is raised exactly if some evqueue
\* line names another phase.
C11_OwningPhaseKnown ==
    LET known == { None, "init", "idle", "irq", "sleep" } \cup DeclaredPhases \cup IrqPhases
    IN  /\ presult.st = "ok" =>
              /\ \A k \in 1..Len(progdef.queues) : progdef.queues[k].phase \in known
              /\ NamedPhases \subseteq known
        /\ EndChecked => (UnknownPhaseRaised <=> ~(NamedPhases \subseteq known))

\* (C11: a queue owned by a user phase that is declared after the evqueue
\* line was accepted.)
C11_Reached ==
    /\ presult.st = "ok"
    /\ \E a, b \in 1..Len(lines) :
          /\ a < b
          /\ lines[a] = Line("evqueue", << "QA", "P" >>)
          /\ lines[b] = Line("phase", << "P" >>)

\* C12: every input that parse_lines rejects is rejected with a ValueError
\* whose message starts with path:line (lexical error, wrong number of
\* arguments or none at all, unknown op, irq phase without the prefix, const
\* reduction outside the set, event before any evqueue, unknown phase, an
\* event twice in one phase, wake always with wake sources, no dios marker).
C12_FailuresLocated ==
    presult.st \notin { "parsing", "ok" } => (presult.st = "error" /\ presult.located)

WakeAlwaysLines == { k \in LinesWith("wake") : lines[k].args = << "always" >> }

WakeSourceLines == { k \in LinesWith("wake") : Len(lines[k].args) = 2 }

WakeConflictRaised == presult = Error("Both 'wake always' and explicit source(s) specified")

\* C13: for every successfully parsed Program, sleepable is true exactly if
\* the input has a wake line; an input with both a wake always line and a
\* wake line naming a source is rejected, whichever comes first, and the
\* wake-conflict failure is raised only for such an input.
C13_SleepableIffWake ==
    /\ presult.st = "ok" => (progdef.sleepable <=> LinesWith("wake") # {})
    /\ (presult # Parsing /\ WakeAlwaysLines # {} /\ WakeSourceLines # {})
          => presult.st = "error"
    /\ WakeConflictRaised => (WakeAlwaysLines # {} /\ WakeSourceLines # {})

\* (C13: the conflict was raised for an input whose explicit wake source
\* stands before its wake always line.)
C13_Reached ==
    /\ WakeConflictRaised
    /\ \E a \in WakeSourceLines, b \in WakeAlwaysLines : a < b

\* The result of the cross-entity checks when the marker is missing.
NoMarkerRaised == presult = Error("No 'dios' marker found in file")

\* C19: parse_lines succeeds only if the input has a line with the op dios,
\* at whatever position; an input of valid ops without one, the empty input
\* included, fails with the missing-marker failure when the input ends.
C19_DiosRequired ==
    /\ presult.st = "ok" => DiosSeen
    /\ (presult # Parsing /\ ~DiosSeen) => NoMarkerRaised
    /\ NoMarkerRaised => ~DiosSeen

\* (C19: an input was accepted whose only dios line is its last line, after
\* other ops.)
C19_Reached ==
    /\ presult.st = "ok"
    /\ Len(lines) > 1
    /\ LinesWith("dios") = { Len(lines) }

\* The assembler has evaluated every data definition.
Assembled == gen = "ok" /\ pc > Len(code)

\* The reduction named in the description, as the claim reads it: the
\* operator and its identity.
Reduction ==
    LET opname == CHOOSE n \in ConstOps : ConstOp(n)[1] = prog.consts[1].op
    IN  [opname |-> opname, identity |-> IF opname = "and" THEN -1 ELSE 0]

\* The values of <module>_aconst of the modules that define it, in module
\* declaration order.
Contributions ==
    LET defining == SelectSeq(prog.modules,
                              LAMBDA m : \E e \in build.frags : e.symbol = m \o "_aconst")
    IN  [k \in 1..Len(defining) |->
           (CHOOSE e \in build.frags : e.symbol = defining[k] \o "_aconst").value]

RECURSIVE FoldLeft(_, _, _, _)
FoldLeft(opname, acc, ms, k) ==
    IF k > Len(ms) THEN acc
    ELSE FoldLeft(opname,
                  CASE opname = "and" -> BitAnd(acc, ms[k])
                    [] opname = "or" -> BitIor(acc, ms[k])
                    [] opname = "xor" -> BitXor(acc, ms[k])
                    [] opname = "add" -> acc + ms[k]
                    [] opname = "sub" -> acc - ms[k],
                  ms, k + 1)

\* C15: the assembled value of a declared constant equals the left fold of
\* its reduction, from the reduction's identity (and: -1, the others: 0),
\* over the values of exactly the modules that define <module>_<const>, in
\* module declaration order; it is the identity when no module defines one.
C15_ConstIsLeftFold ==
    (Assembled /\ prog.consts # <<>>) =>
        /\ map["aconst"] = FoldLeft(Reduction.opname, Reduction.identity, Contributions, 1)
        /\ Contributions = <<>> => map["aconst"] = Reduction.identity

\* (C15: reduction or, a_aconst = 1 and b_aconst = 42 assembled to 43.)
C15_Reached ==
    /\ Assembled
    /\ prog.consts # <<>>
    /\ Reduction.opname = "or"
    /\ Contributions = << 1, 42 >>
    /\ map["aconst"] = 43

\* The queues and event positions whose bit-index constant the claim is
\* about: queues of at most 256 events.
BitIndexed ==
    { e \in (1..Len(prog.queues)) \X (0..(ByteRange - 1)) :
        /\ Len(prog.queues[e[1]].events) <= ByteRange
        /\ e[2] < Len(prog.queues[e[1]].events) }

BitIndex(e) == map[EventBitName(prog.queues[e[1]], e[2])]

\* C18: the constant <Queue>_<Event> of the event at position j of the
\* queue with ordinal Q (counted from 0) is Q * 256 + j: its top byte is Q,
\* its bottom byte j, and no two (queue, position) pairs of queues of at most
\* 256 events have the same constant.
C18_BitIndexEncoding ==
    Assembled =>
        /\ \A e \in BitIndexed :
              /\ BitIndex(e) = (e[1] - 1) * 256 + e[2]
              /\ BitIndex(e) \div 256 = e[1] - 1
              /\ BitIndex(e) % 256 = e[2]
        /\ Cardinality({ BitIndex(e) : e \in BitIndexed }) = Cardinality(BitIndexed)

\* (C18: a queue of 256 events and the queue after it have their constants;
\* the last of the first queue is 255, the first of the second 256.)
C18_Reached ==
    /\ Assembled
    /\ Len(prog.queues) = 2
    /\ Len(prog.queues[1].events) = ByteRange
    /\ map["QA_E255"] = 255
    /\ map["QB_E0"] = 256

\* generate_main has just returned: nothing of the program has run.
JustGenerated == gen = "ok" /\ pc = 1 /\ ~InSnip /\ stack = <<>> /\ obs = ObsInit

Positions(i) == { k \in 1..Len(code) : code[k] = i }

\* The one position of instruction i, 0 when it is not there exactly once.
Position(i) == IF Cardinality(Positions(i)) = 1 THEN CHOOSE k \in Positions(i) : TRUE ELSE 0

\* C14: in a program with at least one module, every emitted phase P (init,
\* idle, irq, sleep when sleepable, each user phase, each interrupt phase)
\* has, each exactly once and in this order: the label phase_P; the main-pass
\* includes of aspect P, one per module in declaration order; the drain
\* handlers of the queues P owns, in queue order; the post-pass includes of
\* aspect P, one per module in reverse declaration order.
C14_PhaseLayout ==
    (JustGenerated /\ prog.modules # <<>>) =>
        \A ph \in EmittedPhases(prog) \ { None } :
            LET n == Len(prog.modules)
                a == Position(Label("phase_" \o ph))
                b == Position(Include("diosph", ph, n))
                qs == PhaseQueues(prog, ph)
            IN  /\ a # 0
                /\ b # 0
                /\ \A m \in 1..n :
                      /\ Positions(Include("diosh", ph, m)) = { a + m }
                      /\ Positions(Include("diosph", ph, m)) = { b + (n - m) }
                /\ \A k \in 1..Len(qs) :
                      /\ Position(Label(bendlabel(prog.queues[qs[k]], 0))) # 0
                      /\ a + n < map.first[qs[k]]
                      /\ map.first[qs[k]] <= map.last[qs[k]]
                      /\ map.last[qs[k]] < b
                      /\ k > 1 => map.last[qs[k - 1]] < map.first[qs[k]]

\* (C14: a program with two modules and a queue owned by phase init was
\* generated.)
C14_Reached ==
    /\ JustGenerated
    /\ Len(prog.modules) = 2
    /\ PhaseQueues(prog, "init") # <<>>
    /\ Position(Include("diosph", "init", 2)) + 1 = Position(Include("diosph", "init", 1))

\* The mainline is about to execute the instruction at label l.
MainlineAt(l) == gen = "ok" /\ ~inIsr /\ ~InSnip /\ pc = map.label[l]

\* Where the main loop ends: behind phase_sleep_done when sleepable, behind
\* the post pass of phase idle otherwise, a pagesel and the goto.
LoopBranch ==
    (IF prog.sleepable THEN map.label["phase_sleep_done"]
     ELSE Position(Include("diosph", "idle", 1))) + 2

\* The branch that closes the main loop is about to run.
AtLoopBranch ==
    /\ gen = "ok" /\ ~inIsr /\ ~InSnip
    /\ code[pc] = Goto("phase_idle")
    /\ pc = LoopBranch

\* C16 (order): control reaches _start once; at the first entry of phase
\* init every queue byte has been cleared by its initializer and no phase
\* code has run; phase init is entered once and _start and phase init are
\* never entered again; phase idle is entered only after phase init; once
\* phase idle was entered the mainline stays in the loop that starts at
\* phase_idle, which one unconditional goto phase_idle closes.
C16_MainlineOrder ==
    gen = "ok" =>
        /\ obs.main.start <= 1
        /\ obs.main.init <= 1
        /\ obs.main.init = 1 =>
              obs.main.start = 1 /\ obs.main.zeroed /\ ~obs.main.phase
        /\ obs.main.idle => obs.main.init = 1
        /\ (obs.main.idle /\ ~inIsr) => pc >= map.label["phase_idle"]
        /\ JustGenerated =>
              /\ code[2] = Goto("_start")
              /\ code[LoopBranch] = Goto("phase_idle")
              /\ code[LoopBranch - 1] = Pagesel("phase_idle")
              /\ map.label["phase_init"] < map.label["phase_idle"]
              /\ map.label["phase_idle"] < LoopBranch
              /\ \A k \in map.label["phase_init"]..map.label["phase_idle"] :
                    code[k].op # "goto" \/ code[k].l # "_start"
        /\ AtLoopBranch => obs.main.idle

\* No peripheral has an interrupt flag raised.
Quiet == \A h \in build.hw : Bit(mem[h[1]], h[2]) = 0

\* C16: mainline ordering of the generated program.  After reset control
\* reaches _start, every queue initializer runs before any phase code, phase
\* init runs exactly once and is never run again (C16_MainlineOrder), and
\* afterwards phase idle, with the sleep gate and the sleep phase when
\* sleepable, is executed again and again forever: once the peripherals stop
\* raising interrupt flags, the mainline always comes back to phase_idle or
\* the processor sleeps.
C16_MainlineForever ==
    /\ []C16_MainlineOrder
    /\ <>[]Quiet => [](gen = "ok" => <>(MainlineAt("phase_idle") \/ asleep))

\* A listed wake source has its enable bit set.
WakeEnabled ==
    \E k \in 1..Len(prog.wakesrcs) :
        Bit(mem[Symbol(prog.wakesrcs[k].enfile)], Symbol(prog.wakesrcs[k].enbit)) = 1

\* C17: the sleep phase is entered only when GIE was set at the gate's test
\* of it (and is set at the entry), and, when the description lists wake
\* sources, only when one of them had its enable bit set at its test; with
\* wake always and no idle queue the gate's verdict is the GIE test alone.
C17_SleepNeedsWakeAndGie ==
    (gen = "ok" /\ prog.sleepable /\ ~inIsr /\ ~InSnip) =>
        /\ pc = map.label["phase_sleep"] =>
              /\ obs.gate.gie
              /\ Bit(mem[INTCON], GIE) = 1
              /\ prog.wakesrcs # <<>> => obs.gate.wake
        /\ (pc = map.label["phase_sleep"] - 2 /\ obs.gate.in
            /\ PhaseQueues(prog, "idle") = <<>>) =>
              (Bit(mem[STATUS], C) = 1) =
                 (obs.gate.gie /\ (prog.wakesrcs = <<>> \/ obs.gate.wake))

\* (C17: with explicit wake sources the sleep phase is entered, one source
\* enabled and GIE set.)
C17_Reached ==
    /\ prog.wakesrcs # <<>>
    /\ MainlineAt("phase_sleep")
    /\ obs.gate.wake
    /\ obs.gate.gie
    /\ WakeEnabled

\* The bit of event e = <<q, j>> in the bitmap of its queue: bit j mod 8 of
\* byte floor(j / 8).
BitmapBit(e) == Bit(mem[dios_q(prog, e[1]) + (e[2] \div 8)], e[2] % 8)

\* The instruction about to run is the bit test of an event in a drain
\* handler: the btfsc in front of the branch to the event's implementation.
AtBitTest ==
    /\ gen = "ok"
    /\ ~InSnip
    /\ code[pc].op = "btfsc"
    /\ code[pc + 1].op = "goto"
    /\ code[pc + 1].l \in DOMAIN map.impl
TestedEvent == map.impl[code[pc + 1].l]

\* The instruction about to run is the label of an event's implementation.
AtBitImpl ==
    /\ gen = "ok"
    /\ ~InSnip
    /\ code[pc].op = "label"
    /\ code[pc].l \in DOMAIN map.impl

\* The first branch behind code address a.
NextGoto(a) ==
    CHOOSE k \in (a + 1)..Len(code) :
        code[k].op = "goto" /\ \A m \in (a + 1)..(k - 1) : code[m].op # "goto"

\* C20 (test): the step of an event's bit test goes on to the branch to the
\* implementation exactly when the event's bitmap bit is set, and skips the
\* branch otherwise.
C20_TestDispatches ==
    (AtBitTest /\ pc' \in { pc + 1, pc + 2 }) =>
        ((pc' = pc + 1) = (BitmapBit(TestedEvent) = 1))

\* C20 (entry): an event's implementation is entered only with the event's
\* bitmap bit set.
C20_EnteredWhenSet ==
    AtBitImpl => BitmapBit(map.impl[code[pc].l]) = 1

\* C20 (clear): the first instruction of the implementation leaves the
\* event's bitmap bit clear, before any module code of the event runs.
C20_ClearsFirst ==
    (gen = "ok" /\ Served /\ pc' = pc + 1) =>
        /\ Bit(mem'[dios_q(prog, ServedEvent[1]) + (ServedEvent[2] \div 8)],
               ServedEvent[2] % 8) = 0
        /\ code[pc + 1] = Include("diosh", EventAspect(prog.queues[ServedEvent[1]],
                                                        ServedEvent[2]), 1)

\* C20 (return): the end label of an event stands directly behind its test,
\* and the implementation ends with the branch to that label.
C20_ReturnsBehindTest ==
    JustGenerated =>
        \A l \in DOMAIN map.impl :
            LET bend == bendlabel(prog.queues[map.impl[l][1]], map.impl[l][2])
                t == map.label[bend]
            IN  /\ code[t - 1] = Goto(l)
                /\ code[t - 2].op = "btfsc"
                /\ code[NextGoto(map.label[l])] = Goto(bend)

\* C20: in every drain handler the fragment of event j is dispatched exactly
\* when bit (j mod 8) of bitmap byte floor(j / 8) is set when it is tested;
\* the implementation clears that bit before the event's module code runs
\* and returns to the end label directly behind the test.
C20_DrainDispatch ==
    /\ [][C20_TestDispatches]_vars
    /\ []C20_EnteredWhenSet
    /\ [][C20_ClearsFirst]_vars
    /\ []C20_ReturnsBehindTest

\* The input read by hand: where the evqueue lines are, the names of the
\* event lines strictly between two positions, and a sequence of names with
\* every repetition after the first dropped.
QueueLines == SelectSeq([k \in 1..Len(lines) |-> k], LAMBDA k : lines[k].op = "evqueue")

EventNames(from, to) ==
    LET at == SelectSeq([k \in 1..Len(lines) |-> k],
                        LAMBDA k : k > from /\ k < to /\ lines[k].op = "event")
    IN  [i \in 1..Len(at) |-> lines[at[i]].args[1]]

FirstSeen(names) ==
    LET at == SelectSeq([k \in 1..Len(names) |-> k],
                        LAMBDA k : \A m \in 1..(k - 1) : names[m] # names[k])
    IN  [i \in 1..Len(at) |-> names[at[i]]]

\* C28: while the lines are accepted, the k-th declared queue holds exactly
\* the names of the event lines between its evqueue line and the next one,
\* in order (an event line touches the most recently declared queue only),
\* and the event map holds every event name once, in first-seen order,
\* however many queues use it.
C28_EventGoesToLastQueue ==
    presult = Parsing =>
        /\ Len(progdef.queues) = Len(QueueLines)
        /\ \A k \in 1..Len(QueueLines) :
              progdef.queues[k].events =
                 EventNames(QueueLines[k],
                            IF k < Len(QueueLines) THEN QueueLines[k + 1]
                            ELSE Len(lines) + 1)
        /\ progdef.events = FirstSeen(EventNames(0, Len(lines) + 1))

\* (C28: two queues were declared, the first with two events, and the second
\* uses an event name of the first again.)
C28_Reached ==
    /\ presult = Parsing
    /\ Len(progdef.queues) = 2
    /\ Len(progdef.queues[1].events) = 2
    /\ progdef.queues[2].events = << progdef.queues[1].events[1] >>
    /\ Len(progdef.events) = 2

\* The least number of bytes that hold n bits.
BytesFor(n) == CHOOSE b \in 0..n : 8 * b >= n /\ (b = 0 \/ 8 * (b - 1) < n)

\* The registers a description's queues should own: per queue one state
\* byte and, behind it, the bitmap bytes.
ReservedFor(q) ==
    dios_qstate(prog, q)..(dios_qstate(prog, q) + BytesFor(Len(prog.queues[q].events)))

\* C23: for every queue of N events one state byte and ceil(N / 8) bitmap
\* bytes are reserved, one queue behind the other; the code between _start
\* and phase_init is bank selects and clears only, and it clears each of
\* these bytes once and no other register; when phase init starts for the
\* first time every queue is empty: state byte zero, no bitmap bit set.
C23_QueuesStartEmpty ==
    gen = "ok" =>
        /\ JustGenerated =>
              LET a == map.label["_start"]
                  b == map.label["phase_init"]
                  clears == { k \in (a + 1)..(b - 1) : code[k].op = "clrf" }
                  reserved == UNION { ReservedFor(q) : q \in 1..Len(prog.queues) }
              IN  /\ \A q \in 1..Len(prog.queues) :
                        /\ dios_q(prog, q) = dios_qstate(prog, q) + 1
                        /\ dios_qstate(prog, q + 1) =
                              dios_q(prog, q) + BytesFor(Len(prog.queues[q].events))
                  /\ \A k \in (a + 1)..(b - 1) : code[k].op \in { "banksel", "clrf" }
                  /\ \A k \in clears : code[k - 1] = Banksel(code[k].f)
                  /\ { code[k].f : k \in clears } = reserved
                  /\ Cardinality(clears) = Cardinality(reserved)
        /\ (~inIsr /\ ~InSnip /\ pc = map.label["phase_init"] /\ obs.main.init = 0) =>
              \A q \in 1..Len(prog.queues) :
                  /\ \A r \in ReservedFor(q) : mem[r] = 0
                  /\ ~HasPosted(q)

\* (C23: the initializers of a description with a queue of more than eight
\* events have run and phase init is about to start for the first time.)
C23_Reached ==
    /\ MainlineAt("phase_init")
    /\ obs.main.start = 1
    /\ obs.main.init = 0
    /\ \E q \in 1..Len(prog.queues) : Len(prog.queues[q].events) > 8
    /\ QueuesZero

\* The places <<q, j>> at which the queues hold the event the dispatcher was
\* given (none when the argument is no event's constant).
Holders ==
    IF map.event >= Len(prog.events) THEN {}
    ELSE { e \in (1..Len(prog.queues)) \X (0..LargeLimit) :
             /\ e[2] < Len(prog.queues[e[1]].events)
             /\ prog.queues[e[1]].events[e[2] + 1] = prog.events[map.event + 1] }

\* C25: diospost, given event E, invokes the post macro of every queue that
\* holds E, once each, with that queue's constant <Queue>_<E>, and of no
\* other queue; when the expansion has run, E is posted to all of these
\* queues: the bit of E is set in the bitmap of each.
C25_DispatcherPostsToAll ==
    gen = "ok" =>
        /\ { map.calls[i] : i \in 1..Len(map.calls) } =
              { << e[1], 256 * (e[1] - 1) + e[2] >> : e \in Holders }
        /\ Len(map.calls) = Cardinality(Holders)
        /\ pc = Len(code) + 1 => \A e \in Holders : BitmapBit(e) = 1

\* The routine handle_<queue> of an unassigned queue q: from its label to the
\* first return behind it; and the implementation blocks of q's events.
RoutineOf(q) ==
    LET a == map.label["handle_" \o Lower(prog.queues[q].name)]
    IN  a..(CHOOSE r \in (a + 1)..Len(code) :
                code[r].op = "return" /\ \A m \in (a + 1)..(r - 1) : code[m].op # "return")

ImplBlocksOf(q) ==
    UNION { map.label[l]..NextGoto(map.label[l]) :
              l \in { x \in DOMAIN map.impl : map.impl[x][1] = q } }

\* C27: the routine handle_<queue> of a queue with no owning phase makes one
\* scan pass and returns: it has no branch back to a label at or before the
\* branch, and neither the routine nor the implementations of the queue's
\* events read or write bit 1 of the queue's state byte, however many
\* unassigned queues the description declares.
C27_UnassignedSinglePass ==
    JustGenerated =>
        \A q \in 1..Len(prog.queues) :
            prog.queues[q].phase = None =>
                /\ \A k \in RoutineOf(q) :
                      code[k].op = "goto" => map.label[code[k].l] > k
                /\ \A k \in RoutineOf(q) \cup ImplBlocksOf(q) :
                      ~ /\ code[k].op \in { "bcf", "bsf", "btfsc", "btfss" }
                        /\ code[k].f = dios_qstate(prog, q)
                        /\ code[k].b = 1

\* C26: no spurious handler execution.  The implementation block of an event
\* is entered only through the branch of its own bit test: the instruction
\* in front of its label never falls through (it is an unconditional goto,
\* a return or a retfie), exactly one goto names the label, that goto stands
\* directly behind the btfsc of the event's bitmap bit, and nothing calls
\* the label.  This holds wherever implementation streams are appended.
C26_NoFallThrough ==
    JustGenerated =>
        \A l \in DOMAIN map.impl :
            LET a == map.label[l]
                e == map.impl[l]
                g == Position(Goto(l))
            IN  /\ code[a - 1].op \in { "goto", "return", "retfie" }
                /\ code[a - 2].op \notin { "btfsc", "btfss" }
                /\ g # 0
                /\ code[g - 1] = Btfsc(dios_q(prog, e[1]) + (e[2] \div 8), e[2] % 8)
                /\ Positions(Call(l)) = {}

\* The queues the generator drains in one pass: those whose phase has no
\* other queue.
SinglePass(q) == ~phase_has_priorities(prog, prog.queues[q].phase)

\* C24 (layout): the bit tests of a single-pass queue stand in declaration
\* order, one test per event, and no goto between the first and the last
\* instruction of the handler names a label at or before itself.
C24_TestsAscend ==
    JustGenerated =>
        \A q \in 1..Len(prog.queues) :
            SinglePass(q) =>
                LET n == Len(prog.queues[q].events)
                    bend(j) == map.label[bendlabel(prog.queues[q], j)]
                IN  /\ \A j \in 0..(n - 1) :
                          /\ map.first[q] < bend(j) /\ bend(j) <= map.last[q] + 1
                          /\ j > 0 => bend(j - 1) < bend(j)
                    /\ Cardinality({ k \in map.first[q]..map.last[q] :
                                       code[k].op = "btfsc"
                                       /\ code[k + 1].op = "goto"
                                       /\ code[k + 1].l \in DOMAIN map.impl }) = n
                    /\ \A k \in map.first[q]..map.last[q] :
                          code[k].op = "goto" => map.label[code[k].l] > k

\* C24 (run): in a pass of a single-pass queue no event is served twice and
\* none after an event declared behind it.
C24_OncePerPassInOrder ==
    \A e \in obs.pass.twice \cup obs.pass.back : ~SinglePass(e[1])

\* C24 (completeness): when the pass of a single-pass queue ends, every
\* event whose bit was set when the pass started has been served.
C24_PendingServed ==
    \A q \in 1..Len(prog.queues) :
        (gen = "ok" /\ SinglePass(q) /\ PassEnd(q)) =>
            \A e \in obs.pass.todo : e[1] # q

\* C24: within one drain pass of a queue that is not in priority mode the
\* event bits are tested in declaration order, each once, so each event's
\* handler runs at most once per pass and handlers run in ascending event
\* position; every event pending when the pass started has been handled
\* when the pass ends, and the pass has no backward branch.
C24_SinglePassDrain ==
    C24_TestsAscend /\ C24_OncePerPassInOrder /\ C24_PendingServed

\* The running context and the interrupted or calling ones.
Contexts == { Frame(pc, pend) } \cup { stack[k] : k \in 1..Len(stack) }

\* Control, or an interrupted context, is in the drain handler of queue q:
\* between the first and the last instruction of its pass or in one of its
\* event implementations.
InHandler(q) ==
    \E c \in Contexts :
        (IF c.pend.ins # <<>> THEN c.pc - 1 ELSE c.pc)
            \in (map.first[q]..map.last[q]) \cup ImplBlocksOf(q)

\* A post macro for queue q has set its bitmap bit and not yet state bit 0,
\* in the running context or in an interrupted one.
MidPost(q) ==
    \E c \in Contexts :
        /\ c.pend.post # NoPost
        /\ c.pend.post[1] = q
        /\ c.pend.ins # <<>>
        /\ c.pend.ins[Len(c.pend.ins)] = Bsf(dios_qstate(prog, q), 0)
        /\ \A k \in 1..Len(c.pend.ins) : c.pend.ins[k].op = "bsf" => k = Len(c.pend.ins)

BitmapClear(q) ==
    \A i \in 0..(QBytes(prog.queues[q]) - 1) : mem[dios_q(prog, q) + i] = 0

SharedPhases ==
    { prog.queues[q].phase : q \in { k \in 1..Len(prog.queues) :
          prog.queues[k].phase # None
          /\ phase_has_priorities(prog, prog.queues[k].phase) } }

QueuesOf(phase) == { k \in 1..Len(prog.queues) : prog.queues[k].phase = phase }

LastQueue(phase) == CHOOSE q \in QueuesOf(phase) : \A k \in QueuesOf(phase) : k <= q

\* Mainline stands behind the handler of the last queue of the phase, in
\* front of the phase's post-pass modules.
AtPostPass(phase) == gen = "ok" /\ PassEnd(LastQueue(phase))

AtSharedPostPass == \E phase \in SharedPhases : AtPostPass(phase)

\* C21 (layout): between the start label of a shared phase and its post
\* pass the handlers of its queues stand in queue order, and a goto of a
\* handler that leaves the handler names the start label of the phase, so
\* the post pass is entered only from the end of the last handler.
C21_OnlyFromLastHandler ==
    JustGenerated =>
        \A phase \in SharedPhases :
            LET qs == QueuesOf(phase)
                start == map.label["phase_" \o phase]
            IN  /\ \A q \in qs : start < map.first[q] /\ map.first[q] <= map.last[q]
                /\ \A q, k \in qs : q < k => map.last[q] < map.first[k]
                /\ \A q \in qs : \A a \in map.first[q]..map.last[q] :
                      code[a].op = "goto" =>
                          \/ map.label[code[a].l] = start
                          \/ map.label[code[a].l] \in (a + 1)..(map.last[q] + 1)
                          \/ code[a].l \in { l \in DOMAIN map.impl : map.impl[l][1] = q }

\* C21 (pass): the post pass of a shared phase is reached with no queue of
\* the phase having processed an event since its handler was entered.
C21_AfterQuietPass ==
    \A phase \in SharedPhases :
        AtPostPass(phase) => QueuesOf(phase) \cap obs.proc = {}

\* Module code is about to set a bit in the bytes of a queue of a shared
\* phase: an event is being posted to one of the phase's queues.
Posting ==
    /\ gen = "ok"
    /\ InSnip
    /\ Cur.op = "bsf"
    /\ \E phase \in SharedPhases : \E q \in QueuesOf(phase) :
          Cur.f \in dios_qstate(prog, q)..(dios_qstate(prog, q + 1) - 1)

\* C21: in a phase owned by two or more queues the post-pass modules are
\* reached only at the end of a full pass over the phase's queues in which
\* no queue processed an event; and if from some point on no event is
\* posted to any of the phase's queues (and no peripheral raises an
\* interrupt flag, so that the mainline keeps the processor), the restart
\* loop terminates and the post pass is reached.
C21_RestartTerminates ==
    /\ [](C21_OnlyFromLastHandler /\ C21_AfterQuietPass)
    /\ (<>[](Quiet /\ ~Posting) =>
           []((gen # "todo" /\ SharedPhases # {}) => <>AtSharedPostPass))

====
